---- MODULE Spec2Model ----
(***************************************************************************)
(* Model of meilisearch/src/analytics/segment_analytics.rs: the telemetry  *)
(* aggregator actor (Segment), its type-erased messages (Message / Event), *)
(* and the three concrete aggregate payloads (SearchAggregator,            *)
(* MultiSearchAggregator, SimilarAggregator).                              *)
(*                                                                         *)
(* Conventions                                                             *)
(*   Option<T>      : <<>> is None, <<v>> is Some(v)                       *)
(*   usize          : a counter, which the program only adds to, is kept   *)
(*                    at UsizeBits bits (0 .. UsizeMax) so that counting   *)
(*                    reaches its end; a number of a request (page,        *)
(*                    hits_per_page, limit, offset, and max_limit and      *)
(*                    max_offset made from them) is kept at the full 64    *)
(*                    bits: n >= 0 is the value n, n < 0 is the value      *)
(*                    2^64 + n, so that usize::MAX is -1                   *)
(*   HashMap<K, n>  : a function from the set of present keys to counts    *)
(*   BinaryHeap<n>  : a bag (multiset) of samples                          *)
(*   String         : a sequence of tokens; only the tokens the code looks *)
(*                    for are distinguished                                *)
(*   serde_json     : objects are records; leaves are the tagged records   *)
(*                    JNum / JBool / JStr / JNull / ...                    *)
(***************************************************************************)
EXTENDS Bags, FiniteSets, Integers, Sequences, TLC

\* ------------------------------------------------------------------ bounds

\* Width of the usize counters in the model (the program runs with 64).
UsizeBits == 5
\* Number of requests whose telemetry is constructed in one run.
MaxMsgs == 2
\* Number of timer ticks in one run.
MaxTicks == 2
\* Number of sink operations (push / flush) that fail in one run.
MaxSinkFailures == 1
\* Capacity of the mailbox in the model (the program creates it with 100).
MailboxCapacity == 1

UsizeMax == 2 ^ UsizeBits - 1

\* ------------------------------------------------------------- arithmetic

None == <<>>
Some(v) == <<v>>

Max(a, b) == IF a >= b THEN a ELSE b
Min(a, b) == IF a <= b THEN a ELSE b

wrapping_add(a, b) == (a + b) % (UsizeMax + 1)

saturating_add(a, b) == IF a + b > UsizeMax THEN UsizeMax ELSE a + b

saturating_sub(a, b) == IF a < b THEN 0 ELSE a - b

\* usize::MAX among the numbers of a request: 2^64 - 1.
USIZE_MAX == -1

\* a < b between two numbers of a request: a negative integer stands for a
\* value next to 2^64, above every value written as itself.
request_lt(a, b) == IF (a < 0) = (b < 0) THEN a < b ELSE b < 0

\* Ord::max on two numbers of a request.
request_max(a, b) == IF request_lt(b, a) THEN a ELSE b

\* usize::saturating_sub on numbers of a request.
request_saturating_sub(a, b) == IF request_lt(a, b) THEN 0 ELSE a - b

\* The product of two numbers of a request exceeds usize::MAX: neither
\* factor is 0 or 1 and one of them is next to 2^64 (the others are too
\* small for their product to get there).
mul_overflows(a, b) == a \notin {0, 1} /\ b \notin {0, 1} /\ (a < 0 \/ b < 0)

RECURSIVE Gcd(_, _)
Gcd(a, b) == IF b = 0 THEN a ELSE Gcd(b, a % b)

\* ------------------------------------------------------------ JSON values

JNull == [null |-> TRUE]
JNum(n) == [num |-> n]
JBool(b) == [bool |-> b]
JStr(s) == [str |-> s]
\* A set serialised as a JSON array (HashSet / BTreeSet).
JSet(s) == [set |-> s]
\* The decimal string of an integer, as Display writes it.
JIntString(n) == [digits |-> n]
\* A decimal string with exactly two fractional digits, by its value in
\* hundredths.
JFixed2(h) == [hundredths |-> h]
\* A finite f64 number that is the quotient n / d, as the reduced fraction.
JRatio(n, d) == [ratio |-> <<n \div Gcd(n, d), d \div Gcd(n, d)>>]

is_null(v) == v = JNull

\* Value::Object: a function from keys to values; the values that are not
\* objects are written here by one of the fields named.
is_object(v) ==
    DOMAIN v \cap {"null", "num", "bool", "str", "set", "digits",
                   "hundredths", "ratio"} = {}

\* Value indexing for reading (Index<&str>): a missing key reads as null,
\* and so does any key of a value that is not an object.
JsonGet(obj, key) ==
    IF is_object(obj) /\ key \in DOMAIN obj THEN obj[key] ELSE JNull

\* An average guarded against a zero denominator.
format_avg_guarded(a, b) ==
    IF b = 0 THEN JFixed2(0)
    ELSE LET q == (100 * a) \div b
             r == (100 * a) % b
         IN  IF 2 * r > b \/ (2 * r = b /\ q % 2 = 1)
             THEN JFixed2(q + 1)
             ELSE JFixed2(q)

\* format!("{:.2}", a as f64 / b as f64)
\* 0/0 is NaN, x/0 is inf; otherwise the quotient is written with two
\* fractional digits, rounded to nearest with ties to even.
format_avg(a, b) ==
    IF b = 0
    THEN IF a = 0 THEN JStr("NaN") ELSE JStr("inf")
    ELSE LET q == (100 * a) \div b
             r == (100 * a) % b
         IN  IF 2 * r > b \/ (2 * r = b /\ q % 2 = 1)
             THEN JFixed2(q + 1)
             ELSE JFixed2(q)

\* json!(a as f64 / b as f64): serde_json turns a non-finite f64 into null.
json_f64_div(a, b) == IF b = 0 THEN JNull ELSE JRatio(a, b)

\* --------------------------------------------------------------- strings

\* s.split_whitespace().count(): the number of maximal runs of tokens that
\* are not the whitespace token " ".
split_whitespace_count(s) ==
    Cardinality({i \in 1 .. Len(s) : s[i] # " " /\ (i = 1 \/ s[i - 1] = " ")})

\* Regex::new("AND | OR"): the tokens the expression matches.
RE == {"AND ", " OR"}

RE_is_match(s) == \E i \in 1 .. Len(s) : s[i] \in RE

\* RE.split(s).count(): one more than the number of matches.
RE_split_count(s) == Cardinality({i \in 1 .. Len(s) : s[i] \in RE}) + 1

contains(s, tok) == \E i \in 1 .. Len(s) : s[i] = tok

\* The texts of ss one after the other, with sep between them.
RECURSIVE Join(_, _)
Join(ss, sep) ==
    IF ss = <<>> THEN <<>>
    ELSE IF Len(ss) = 1 THEN Head(ss)
    ELSE Head(ss) \o sep \o Join(Tail(ss), sep)

\* Value::to_string() of a filter, the compact JSON text: a string is its
\* content between quotes, an array the texts of its elements between
\* brackets, an object the texts of its keys and values between braces; a
\* number, a boolean and null are one word.
RECURSIVE value_to_string(_)
value_to_string(v) ==
    CASE v.kind = "String" -> <<"\"">> \o v.s \o <<"\"">>
      [] v.kind = "Array" ->
            <<"[">> \o Join([i \in 1 .. Len(v.values) |->
                               value_to_string(v.values[i])], <<",">>)
                   \o <<"]">>
      [] v.kind = "Object" ->
            <<"{">> \o Join([i \in 1 .. Len(v.entries) |->
                               <<"\"">> \o v.entries[i].key \o <<"\"", ":">>
                                   \o value_to_string(v.entries[i].value)],
                            <<",">>)
                   \o <<"}">>
      [] OTHER -> <<"x">>

\* ------------------------------------------------------------- HashMap

EmptyMap == <<>>

\* A merge by insert: the incoming count replaces the stored one.
merge_table_replace(old, new) ==
    [k \in DOMAIN old \cup DOMAIN new |->
        IF k \in DOMAIN new THEN new[k] ELSE old[k]]

\* for (key, value) in new { *old.entry(key).or_insert(0) saturating_add= value }
merge_table(old, new) ==
    [k \in DOMAIN old \cup DOMAIN new |->
        IF k \in DOMAIN new
        THEN saturating_add(IF k \in DOMAIN old THEN old[k] ELSE 0, new[k])
        ELSE old[k]]

\* The orders in which a HashMap may iterate over its keys: the order is
\* unspecified and differs between two maps holding the same entries.
RECURSIVE IterOrders(_)
IterOrders(keys) ==
    IF keys = {} THEN {<<>>}
    ELSE UNION {{<<k>> \o o : o \in IterOrders(keys \ {k})} : k \in keys}

\* table.iter().max_by_key(|(_, v)| *v).map(|(k, _)| json!(k))
\*      .unwrap_or_else(|| json!(null))
\* Iterator::max_by_key returns the last of several maximal elements.
RECURSIVE max_by_key(_, _, _)
max_by_key(table, order, best) ==
    IF order = <<>> THEN best
    ELSE LET k == Head(order)
         IN  max_by_key(table, Tail(order),
                        IF best = None \/ table[k] >= table[best[1]]
                        THEN Some(k) ELSE best)

most_used(table, order) ==
    LET m == max_by_key(table, order, None)
    IN  IF m = None THEN JNull ELSE JStr(m[1])

\* ---------------------------------------------------------- BinaryHeap

\* BinaryHeap::into_sorted_vec: the samples in ascending order.
RECURSIVE into_sorted_vec(_)
into_sorted_vec(heap) ==
    IF DOMAIN heap = {} THEN <<>>
    ELSE LET m == CHOOSE x \in DOMAIN heap : \A y \in DOMAIN heap : x <= y
             rest == [x \in DOMAIN heap \ {m} |-> heap[x]]
         IN  [i \in 1 .. heap[m] |-> m] \o into_sorted_vec(rest)

heap_push(heap, v) == heap (+) SetToBag({v})

\* The index taken as the 99 hundredths of the last index.
percentile_99th_of_last_index(heap) ==
    LET sorted == into_sorted_vec(heap)
        idx == ((Len(sorted) - 1) * 99) \div 100
    IN  IF idx + 1 \in 1 .. Len(sorted) THEN JIntString(sorted[idx + 1]) ELSE JNull

\* let v = time_spent.into_sorted_vec(); v.get(v.len() * 99 / 100)
\*     .map(|t| format!("{:.2}", t))
percentile_99th(heap) ==
    LET sorted == into_sorted_vec(heap)
        idx == (Len(sorted) * 99) \div 100
    IN  IF idx + 1 \in 1 .. Len(sorted) THEN JIntString(sorted[idx + 1]) ELSE JNull

\* ------------------------------------------------------------------- state

VARIABLES
    overflow_checks,  \* the build: TRUE when integer overflow panics (debug
                      \* profile), FALSE when it wraps (release profile)
    now,              \* OffsetDateTime::now_utc(), as a counter
    built,            \* the messages Message::new returned so far, in order
    pending,          \* messages built by a request and not yet sent
    inbox,            \* Segment.inbox: the mpsc channel's queue
    dropped,          \* ids of the messages the full mailbox refused
    events,           \* Segment.events: the entries of the HashMap
    pc,               \* where the actor's run loop stands
    taken,            \* tick's local `events`, the entries not yet exported
    ticks,            \* number of ticks started so far
    batcher,          \* what the sink was asked to do, in order
    failures,         \* number of sink operations that failed so far
    last,             \* what the latest actor step did
    arg,              \* inputs of the payload functions under evaluation
    out,              \* their results
    startup,          \* what SegmentAnalytics::new finds: whether an instance
                      \* uid was stored, whether the HTTP client can be built
    elapsed,          \* tokio's clock, in half hours since run was entered
    deadline,         \* the instant at which `interval` yields its next tick
    stats,            \* per tick, whether create_all_stats returned Ok
    closed            \* TRUE once every Sender of the mailbox is dropped

\* The variables no step of the actor's loop writes, and those only the
\* timer branch writes.
clock_vars == <<startup, elapsed, closed>>
tick_vars == <<deadline, stats>>

vars == <<overflow_checks, now, built, pending, inbox, dropped, events, pc,
          taken, ticks, batcher, failures, last, arg, out, clock_vars,
          tick_vars>>

actor_vars == <<now, built, pending, inbox, dropped, events, pc, taken, ticks,
                batcher, failures, last, clock_vars, tick_vars>>

\* A computation that panicked (an arithmetic overflow with overflow checks).
Panic == [ty |-> "panic"]

\* `a += b` on usize counters: panic or wrap-around, as the build decides.
checked_add(a, b) ==
    IF a + b > UsizeMax
    THEN IF overflow_checks THEN Panic ELSE JNum(wrapping_add(a, b))
    ELSE JNum(a + b)

\* `a * b` on numbers of a request: panic or wrap-around, as the build
\* decides.  The product of the two integers stands for the product of the
\* two values modulo 2^64.
checked_mul(a, b) ==
    IF mul_overflows(a, b) /\ overflow_checks THEN Panic
    ELSE JNum(a * b)

\* ------------------------------------------------ crate::search defaults

DEFAULT_SEARCH_LIMIT == 20
DEFAULT_CROP_LENGTH == 10
\* DEFAULT_SEMANTIC_RATIO is 0.5; ratios are kept in hundredths.
DEFAULT_SEMANTIC_RATIO == 50
DEFAULT_CROP_MARKER == "..."
DEFAULT_HIGHLIGHT_PRE_TAG == "<em>"
DEFAULT_HIGHLIGHT_POST_TAG == "</em>"

\* SearchQuery::is_finite_pagination
is_finite_pagination(query) == query.page # None \/ query.hits_per_page # None

\* --------------------------------------------------------- SearchAggregator

SearchTy(method) == IF method = "GET" THEN "SearchAggregator<SearchGET>"
                    ELSE "SearchAggregator<SearchPOST>"

\* #[derive(Default)]
SearchDefault(method) ==
    [ty |-> SearchTy(method),
     total_received |-> 0,
     total_succeeded |-> 0,
     total_degraded |-> 0,
     total_used_negative_operator |-> 0,
     time_spent |-> EmptyBag,
     sort_with_geo_point |-> FALSE,
     sort_sum_of_criteria_terms |-> 0,
     sort_total_number_of_criteria |-> 0,
     distinct |-> FALSE,
     filter_with_geo_radius |-> FALSE,
     filter_with_geo_bounding_box |-> FALSE,
     filter_sum_of_criteria_terms |-> 0,
     filter_total_number_of_criteria |-> 0,
     used_syntax |-> EmptyMap,
     attributes_to_search_on_total_number_of_uses |-> 0,
     max_terms_number |-> 0,
     max_vector_size |-> 0,
     semantic_ratio |-> FALSE,
     hybrid |-> FALSE,
     retrieve_vectors |-> FALSE,
     matching_strategy |-> EmptyMap,
     locales |-> {},
     max_limit |-> 0,
     max_offset |-> 0,
     finite_pagination |-> 0,
     max_attributes_to_retrieve |-> 0,
     max_attributes_to_highlight |-> 0,
     highlight_pre_tag |-> FALSE,
     highlight_post_tag |-> FALSE,
     max_attributes_to_crop |-> 0,
     crop_marker |-> FALSE,
     show_matches_position |-> FALSE,
     crop_length |-> FALSE,
     facets_sum_of_terms |-> 0,
     facets_total_number_of_facets |-> 0,
     show_ranking_score |-> FALSE,
     show_ranking_score_details |-> FALSE,
     ranking_score_threshold |-> FALSE]

\* The filter part shared by SearchAggregator::from_query and
\* SimilarAggregator::from_query.
filter_syntax(filter) ==
    CASE filter.kind = "String" -> "string"
      [] filter.kind = "Array" ->
            IF \E i \in 1 .. Len(filter.values) :
                   RE_is_match(value_to_string(filter.values[i]))
            THEN "mixed" ELSE "array"
      [] OTHER -> "none"

\* SearchAggregator::from_query
SearchAggregator_from_query(query, method) ==
    LET hasSort == query.sort # None
        hasFilter == query.filter # None
        stringified_filters == IF hasFilter THEN value_to_string(query.filter[1])
                               ELSE <<>>
        finite == is_finite_pagination(query)
        limit == IF query.hits_per_page # None THEN query.hits_per_page[1]
                 ELSE DEFAULT_SEARCH_LIMIT
        page == IF query.page # None THEN query.page[1] ELSE 1
        offset == checked_mul(request_saturating_sub(page, 1), limit)
    IN  IF finite /\ offset = Panic THEN Panic
        ELSE
        [SearchDefault(method) EXCEPT
            !.total_received = 1,
            !.sort_total_number_of_criteria = IF hasSort THEN 1 ELSE 0,
            !.sort_with_geo_point =
                hasSort /\ \E i \in 1 .. Len(query.sort[1]) :
                               contains(query.sort[1][i], "_geoPoint("),
            !.sort_sum_of_criteria_terms =
                IF hasSort THEN Len(query.sort[1]) ELSE 0,
            !.distinct = query.distinct # None,
            !.filter_total_number_of_criteria = IF hasFilter THEN 1 ELSE 0,
            !.used_syntax =
                IF hasFilter THEN (filter_syntax(query.filter[1]) :> 1)
                ELSE EmptyMap,
            !.filter_with_geo_radius =
                hasFilter /\ contains(stringified_filters, "_geoRadius("),
            !.filter_with_geo_bounding_box =
                hasFilter /\ contains(stringified_filters, "_geoBoundingBox("),
            !.filter_sum_of_criteria_terms =
                IF hasFilter THEN RE_split_count(stringified_filters) ELSE 0,
            !.attributes_to_search_on_total_number_of_uses =
                IF query.attributes_to_search_on # None THEN 1 ELSE 0,
            !.max_terms_number =
                IF query.q # None THEN split_whitespace_count(query.q[1]) ELSE 0,
            !.max_vector_size =
                IF query.vector # None THEN Len(query.vector[1]) ELSE 0,
            !.retrieve_vectors = query.retrieve_vectors,
            !.max_limit = IF finite THEN limit ELSE query.limit,
            !.max_offset = IF finite THEN offset.num ELSE query.offset,
            !.finite_pagination = IF finite THEN 1 ELSE 0,
            !.matching_strategy = (query.matching_strategy :> 1),
            !.locales = IF query.locales # None
                        THEN {query.locales[1][i] : i \in 1 .. Len(query.locales[1])}
                        ELSE {},
            !.highlight_pre_tag = query.highlight_pre_tag # DEFAULT_HIGHLIGHT_PRE_TAG,
            !.highlight_post_tag = query.highlight_post_tag # DEFAULT_HIGHLIGHT_POST_TAG,
            !.crop_marker = query.crop_marker # DEFAULT_CROP_MARKER,
            !.crop_length = query.crop_length # DEFAULT_CROP_LENGTH,
            !.show_matches_position = query.show_matches_position,
            !.show_ranking_score = query.show_ranking_score,
            !.show_ranking_score_details = query.show_ranking_score_details,
            !.ranking_score_threshold = query.ranking_score_threshold # None,
            !.semantic_ratio =
                query.hybrid # None
                /\ query.hybrid[1].semantic_ratio # DEFAULT_SEMANTIC_RATIO,
            !.hybrid = query.hybrid # None]

\* A succeed that leaves total_succeeded alone.
SearchAggregator_succeed_uncounted(self, result) ==
    [self EXCEPT
        !.total_degraded = IF result.degraded THEN saturating_add(@, 1) ELSE @,
        !.total_used_negative_operator =
            IF result.used_negative_operator THEN saturating_add(@, 1) ELSE @,
        !.time_spent = heap_push(@, result.processing_time_ms)]

\* SearchAggregator::succeed
SearchAggregator_succeed(self, result) ==
    [self EXCEPT
        !.total_succeeded = saturating_add(@, 1),
        !.total_degraded = IF result.degraded THEN saturating_add(@, 1) ELSE @,
        !.total_used_negative_operator =
            IF result.used_negative_operator THEN saturating_add(@, 1) ELSE @,
        !.time_spent = heap_push(@, result.processing_time_ms)]

\* <SearchAggregator as Aggregate>::aggregate
SearchAggregator_aggregate(self, new) ==
    LET fp == checked_add(self.finite_pagination, new.finite_pagination)
    IN  IF fp = Panic THEN Panic
        ELSE
        [self EXCEPT
            \* request
            !.total_received = saturating_add(@, new.total_received),
            !.total_succeeded = saturating_add(@, new.total_succeeded),
            !.total_degraded = saturating_add(@, new.total_degraded),
            !.total_used_negative_operator =
                saturating_add(@, new.total_used_negative_operator),
            !.time_spent = @ (+) new.time_spent,
            \* sort
            !.sort_with_geo_point = @ \/ new.sort_with_geo_point,
            !.sort_sum_of_criteria_terms =
                saturating_add(@, new.sort_sum_of_criteria_terms),
            !.sort_total_number_of_criteria =
                saturating_add(@, new.sort_total_number_of_criteria),
            \* distinct
            !.distinct = @ \/ new.distinct,
            \* filter
            !.filter_with_geo_radius = @ \/ new.filter_with_geo_radius,
            !.filter_with_geo_bounding_box = @ \/ new.filter_with_geo_bounding_box,
            !.filter_sum_of_criteria_terms =
                saturating_add(@, new.filter_sum_of_criteria_terms),
            !.filter_total_number_of_criteria =
                saturating_add(@, new.filter_total_number_of_criteria),
            !.used_syntax = merge_table(@, new.used_syntax),
            \* attributes_to_search_on
            !.attributes_to_search_on_total_number_of_uses =
                saturating_add(@, new.attributes_to_search_on_total_number_of_uses),
            \* q
            !.max_terms_number = Max(@, new.max_terms_number),
            \* vector
            !.max_vector_size = Max(@, new.max_vector_size),
            !.retrieve_vectors = @ \/ new.retrieve_vectors,
            !.semantic_ratio = @ \/ new.semantic_ratio,
            !.hybrid = @ \/ new.hybrid,
            \* pagination
            !.max_limit = request_max(@, new.max_limit),
            !.max_offset = request_max(@, new.max_offset),
            !.finite_pagination = fp.num,
            \* formatting
            !.max_attributes_to_retrieve = Max(@, new.max_attributes_to_retrieve),
            !.max_attributes_to_highlight = Max(@, new.max_attributes_to_highlight),
            !.highlight_pre_tag = @ \/ new.highlight_pre_tag,
            !.highlight_post_tag = @ \/ new.highlight_post_tag,
            !.max_attributes_to_crop = Max(@, new.max_attributes_to_crop),
            !.crop_marker = @ \/ new.crop_marker,
            !.show_matches_position = @ \/ new.show_matches_position,
            !.crop_length = @ \/ new.crop_length,
            \* facets
            !.facets_sum_of_terms = saturating_add(@, new.facets_sum_of_terms),
            !.facets_total_number_of_facets =
                saturating_add(@, new.facets_total_number_of_facets),
            \* matching strategy
            !.matching_strategy = merge_table(@, new.matching_strategy),
            \* scoring
            !.show_ranking_score = @ \/ new.show_ranking_score,
            !.show_ranking_score_details = @ \/ new.show_ranking_score_details,
            !.ranking_score_threshold = @ \/ new.ranking_score_threshold,
            \* locales
            !.locales = @ \cup new.locales]

\* <SearchAggregator as Aggregate>::into_event.  syntax_order and
\* strategy_order are the orders in which used_syntax.iter() and
\* matching_strategy.iter() yield their keys.
SearchAggregator_into_event(self, syntax_order, strategy_order) ==
    [requests |->
        [response_time_99th |-> percentile_99th(self.time_spent),
         total_succeeded |-> JNum(self.total_succeeded),
         total_failed |->
            JNum(saturating_sub(self.total_received, self.total_succeeded)),
         total_received |-> JNum(self.total_received),
         total_degraded |-> JNum(self.total_degraded),
         total_used_negative_operator |-> JNum(self.total_used_negative_operator)],
     sort |->
        [with_geoPoint |-> JBool(self.sort_with_geo_point),
         avg_criteria_number |->
            format_avg(self.sort_sum_of_criteria_terms,
                       self.sort_total_number_of_criteria)],
     distinct |-> JBool(self.distinct),
     filter |->
        [with_geoRadius |-> JBool(self.filter_with_geo_radius),
         with_geoBoundingBox |-> JBool(self.filter_with_geo_bounding_box),
         avg_criteria_number |->
            format_avg(self.filter_sum_of_criteria_terms,
                       self.filter_total_number_of_criteria),
         most_used_syntax |-> most_used(self.used_syntax, syntax_order)],
     attributes_to_search_on |->
        [total_number_of_uses |->
            JNum(self.attributes_to_search_on_total_number_of_uses)],
     q |-> [max_terms_number |-> JNum(self.max_terms_number)],
     vector |->
        [max_vector_size |-> JNum(self.max_vector_size),
         retrieve_vectors |-> JBool(self.retrieve_vectors)],
     hybrid |->
        [enabled |-> JBool(self.hybrid),
         semantic_ratio |-> JBool(self.semantic_ratio)],
     pagination |->
        [max_limit |-> JNum(self.max_limit),
         max_offset |-> JNum(self.max_offset),
         most_used_navigation |->
            IF self.finite_pagination > self.total_received \div 2
            THEN JStr("exhaustive") ELSE JStr("estimated")],
     formatting |->
        [max_attributes_to_retrieve |-> JNum(self.max_attributes_to_retrieve),
         max_attributes_to_highlight |-> JNum(self.max_attributes_to_highlight),
         highlight_pre_tag |-> JBool(self.highlight_pre_tag),
         highlight_post_tag |-> JBool(self.highlight_post_tag),
         max_attributes_to_crop |-> JNum(self.max_attributes_to_crop),
         crop_marker |-> JBool(self.crop_marker),
         show_matches_position |-> JBool(self.show_matches_position),
         crop_length |-> JBool(self.crop_length)],
     facets |->
        [avg_facets_number |->
            format_avg(self.facets_sum_of_terms,
                       self.facets_total_number_of_facets)],
     matching_strategy |->
        [most_used_strategy |-> most_used(self.matching_strategy, strategy_order)],
     locales |-> JSet(self.locales),
     scoring |->
        [show_ranking_score |-> JBool(self.show_ranking_score),
         show_ranking_score_details |-> JBool(self.show_ranking_score_details),
         ranking_score_threshold |-> JBool(self.ranking_score_threshold)]]

\* ---------------------------------------------------- MultiSearchAggregator

MultiSearchTy == "MultiSearchAggregator"

\* MultiSearchAggregator::from_federated_search
from_federated_search(federated_search) ==
    LET queries == federated_search.queries
        distinct_indexes == {queries[i].index_uid : i \in 1 .. Len(queries)}
    IN  [ty |-> MultiSearchTy,
         total_received |-> 1,
         total_succeeded |-> 0,
         total_distinct_index_count |-> Cardinality(distinct_indexes),
         total_single_index |-> IF Cardinality(distinct_indexes) = 1 THEN 1 ELSE 0,
         total_search_count |-> Len(queries),
         show_ranking_score |->
            \E i \in 1 .. Len(queries) : queries[i].show_ranking_score,
         show_ranking_score_details |->
            \E i \in 1 .. Len(queries) : queries[i].show_ranking_score_details,
         use_federation |-> federated_search.federation # None]

\* MultiSearchAggregator::succeed
MultiSearchAggregator_succeed(self) ==
    [self EXCEPT !.total_succeeded = saturating_add(@, 1)]

\* A variant of the merge that counts the incoming payload as one request.
MultiSearchAggregator_aggregate_counting(this, new) ==
    [ty |-> MultiSearchTy,
     total_received |-> saturating_add(this.total_received, 1),
     total_succeeded |-> saturating_add(this.total_succeeded, new.total_succeeded),
     total_distinct_index_count |->
        saturating_add(this.total_distinct_index_count,
                       new.total_distinct_index_count),
     total_single_index |->
        saturating_add(this.total_single_index, new.total_single_index),
     total_search_count |->
        saturating_add(this.total_search_count, new.total_search_count),
     show_ranking_score |-> this.show_ranking_score \/ new.show_ranking_score,
     show_ranking_score_details |->
        this.show_ranking_score_details \/ new.show_ranking_score_details,
     use_federation |-> this.use_federation \/ new.use_federation]

\* <MultiSearchAggregator as Aggregate>::aggregate
MultiSearchAggregator_aggregate(this, new) ==
    [ty |-> MultiSearchTy,
     total_received |-> saturating_add(this.total_received, new.total_received),
     total_succeeded |-> saturating_add(this.total_succeeded, new.total_succeeded),
     total_distinct_index_count |->
        saturating_add(this.total_distinct_index_count,
                       new.total_distinct_index_count),
     total_single_index |->
        saturating_add(this.total_single_index, new.total_single_index),
     total_search_count |->
        saturating_add(this.total_search_count, new.total_search_count),
     show_ranking_score |-> this.show_ranking_score \/ new.show_ranking_score,
     show_ranking_score_details |->
        this.show_ranking_score_details \/ new.show_ranking_score_details,
     use_federation |-> this.use_federation \/ new.use_federation]

\* <MultiSearchAggregator as Aggregate>::into_event
MultiSearchAggregator_into_event(self) ==
    [requests |->
        [total_succeeded |-> JNum(self.total_succeeded),
         total_failed |->
            JNum(saturating_sub(self.total_received, self.total_succeeded)),
         total_received |-> JNum(self.total_received)],
     indexes |->
        [total_single_index |-> JNum(self.total_single_index),
         total_distinct_index_count |-> JNum(self.total_distinct_index_count),
         avg_distinct_index_count |->
            json_f64_div(self.total_distinct_index_count, self.total_received)],
     searches |->
        [total_search_count |-> JNum(self.total_search_count),
         avg_search_count |->
            json_f64_div(self.total_search_count, self.total_received)],
     scoring |->
        [show_ranking_score |-> JBool(self.show_ranking_score),
         show_ranking_score_details |-> JBool(self.show_ranking_score_details)],
     federation |-> [use_federation |-> JBool(self.use_federation)]]

\* -------------------------------------------------------- SimilarAggregator

SimilarTy(method) == IF method = "GET" THEN "SimilarAggregator<SimilarGET>"
                     ELSE "SimilarAggregator<SimilarPOST>"

\* #[derive(Default)]
SimilarDefault(method) ==
    [ty |-> SimilarTy(method),
     total_received |-> 0,
     total_succeeded |-> 0,
     time_spent |-> EmptyBag,
     filter_with_geo_radius |-> FALSE,
     filter_with_geo_bounding_box |-> FALSE,
     filter_sum_of_criteria_terms |-> 0,
     filter_total_number_of_criteria |-> 0,
     used_syntax |-> EmptyMap,
     retrieve_vectors |-> FALSE,
     max_limit |-> 0,
     max_offset |-> 0,
     max_attributes_to_retrieve |-> 0,
     show_ranking_score |-> FALSE,
     show_ranking_score_details |-> FALSE,
     ranking_score_threshold |-> FALSE]

\* SimilarAggregator::from_query
SimilarAggregator_from_query(query, method) ==
    LET hasFilter == query.filter # None
        stringified_filters == IF hasFilter THEN value_to_string(query.filter[1])
                               ELSE <<>>
    IN  [SimilarDefault(method) EXCEPT
            !.total_received = 1,
            !.filter_total_number_of_criteria = IF hasFilter THEN 1 ELSE 0,
            !.used_syntax =
                IF hasFilter THEN (filter_syntax(query.filter[1]) :> 1)
                ELSE EmptyMap,
            !.filter_with_geo_radius =
                hasFilter /\ contains(stringified_filters, "_geoRadius("),
            !.filter_with_geo_bounding_box =
                hasFilter /\ contains(stringified_filters, "_geoBoundingBox("),
            !.filter_sum_of_criteria_terms =
                IF hasFilter THEN RE_split_count(stringified_filters) ELSE 0,
            !.max_limit = query.limit,
            !.max_offset = query.offset,
            !.show_ranking_score = query.show_ranking_score,
            !.show_ranking_score_details = query.show_ranking_score_details,
            !.ranking_score_threshold = query.ranking_score_threshold # None,
            !.retrieve_vectors = query.retrieve_vectors]

\* A succeed that counts the success and keeps no sample of it.
SimilarAggregator_succeed_unsampled(self, result) ==
    [self EXCEPT !.total_succeeded = saturating_add(@, 1)]

\* SimilarAggregator::succeed
SimilarAggregator_succeed(self, result) ==
    [self EXCEPT
        !.total_succeeded = saturating_add(@, 1),
        !.time_spent = heap_push(@, result.processing_time_ms)]

\* <SimilarAggregator as Aggregate>::aggregate
SimilarAggregator_aggregate(self, new) ==
    [self EXCEPT
        \* request
        !.total_received = saturating_add(@, new.total_received),
        !.total_succeeded = saturating_add(@, new.total_succeeded),
        !.time_spent = @ (+) new.time_spent,
        \* filter
        !.filter_with_geo_radius = @ \/ new.filter_with_geo_radius,
        !.filter_with_geo_bounding_box = @ \/ new.filter_with_geo_bounding_box,
        !.filter_sum_of_criteria_terms =
            saturating_add(@, new.filter_sum_of_criteria_terms),
        !.filter_total_number_of_criteria =
            saturating_add(@, new.filter_total_number_of_criteria),
        !.used_syntax = merge_table(@, new.used_syntax),
        !.retrieve_vectors = @ \/ new.retrieve_vectors,
        \* pagination
        !.max_limit = request_max(@, new.max_limit),
        !.max_offset = request_max(@, new.max_offset),
        \* formatting
        !.max_attributes_to_retrieve = Max(@, new.max_attributes_to_retrieve),
        \* scoring
        !.show_ranking_score = @ \/ new.show_ranking_score,
        !.show_ranking_score_details = @ \/ new.show_ranking_score_details,
        !.ranking_score_threshold = @ \/ new.ranking_score_threshold]

\* <SimilarAggregator as Aggregate>::into_event.  syntax_order is the order
\* in which used_syntax.iter() yields its keys.
SimilarAggregator_into_event(self, syntax_order) ==
    [requests |->
        [response_time_99th |-> percentile_99th(self.time_spent),
         total_succeeded |-> JNum(self.total_succeeded),
         total_failed |->
            JNum(saturating_sub(self.total_received, self.total_succeeded)),
         total_received |-> JNum(self.total_received)],
     filter |->
        [with_geoRadius |-> JBool(self.filter_with_geo_radius),
         with_geoBoundingBox |-> JBool(self.filter_with_geo_bounding_box),
         avg_criteria_number |->
            format_avg(self.filter_sum_of_criteria_terms,
                       self.filter_total_number_of_criteria),
         most_used_syntax |-> most_used(self.used_syntax, syntax_order)],
     vector |-> [retrieve_vectors |-> JBool(self.retrieve_vectors)],
     pagination |->
        [max_limit |-> JNum(self.max_limit),
         max_offset |-> JNum(self.max_offset)],
     formatting |->
        [max_attributes_to_retrieve |-> JNum(self.max_attributes_to_retrieve)],
     scoring |->
        [show_ranking_score |-> JBool(self.show_ranking_score),
         show_ranking_score_details |-> JBool(self.show_ranking_score_details),
         ranking_score_threshold |-> JBool(self.ranking_score_threshold)]]

\* ------------------------------------------------------ the Aggregate trait

SearchTys == {SearchTy("GET"), SearchTy("POST")}
SimilarTys == {SimilarTy("GET"), SimilarTy("POST")}

\* The concrete types that implement Aggregate in this file; a TypeId is
\* written as the name of its type.
ConcreteTypes == SearchTys \cup {MultiSearchTy} \cup SimilarTys

\* Aggregate::event_name (aggregate_methods! and the impl of
\* MultiSearchAggregator)
event_name(payload) ==
    CASE payload.ty = SearchTy("GET") -> "Documents Searched GET"
      [] payload.ty = SearchTy("POST") -> "Documents Searched POST"
      [] payload.ty = MultiSearchTy -> "Documents Searched by Multi-Search POST"
      [] payload.ty = SimilarTy("POST") -> "Similar POST"
      [] payload.ty = SimilarTy("GET") -> "Similar GET"

\* ConcreteType::aggregate(this, other), dispatched on the concrete type.
aggregate(ConcreteType, this, other) ==
    CASE ConcreteType \in SearchTys -> SearchAggregator_aggregate(this, other)
      [] ConcreteType = MultiSearchTy -> MultiSearchAggregator_aggregate(this, other)
      [] ConcreteType \in SimilarTys -> SimilarAggregator_aggregate(this, other)

\* The keys of the payload's used_syntax and matching_strategy tables (the
\* tables into_event iterates over).
SyntaxKeys(payload) ==
    IF payload.ty = MultiSearchTy THEN {} ELSE DOMAIN payload.used_syntax
StrategyKeys(payload) ==
    IF payload.ty \in SearchTys THEN DOMAIN payload.matching_strategy ELSE {}

\* original.into_event(), dispatched on the concrete type.
into_event(payload, syntax_order, strategy_order) ==
    CASE payload.ty \in SearchTys ->
            SearchAggregator_into_event(payload, syntax_order, strategy_order)
      [] payload.ty = MultiSearchTy -> MultiSearchAggregator_into_event(payload)
      [] payload.ty \in SimilarTys ->
            SimilarAggregator_into_event(payload, syntax_order)

\* ------------------------------------------------------------------ Message

\* downcast_aggregate::<ConcreteType>
downcast_aggregate(ConcreteType, old, new) ==
    IF old.ty = ConcreteType /\ new.ty = ConcreteType
    THEN Some(aggregate(ConcreteType, old, new))
    ELSE None

\* A header value that to_str() refuses (bytes that are not visible ASCII).
\* A text is kept as the sequence of its trimmed parts between ';', of which
\* there is at least one, so the empty sequence stands for no text.
NotText == <<>>

\* extract_user_agents: the X-Meilisearch-Client header if present, else
\* User-Agent; "unknown" when that header is absent or is not a text (there
\* is no falling back from an X-Meilisearch-Client that is not a text);
\* split at ';', trimmed and collected into a set.
extract_user_agents(request) ==
    LET header == IF request.analytics_header # None THEN request.analytics_header
                  ELSE request.user_agent
        to_str == IF header # None /\ header[1] # NotText THEN header
                  ELSE None
        text == IF to_str # None THEN to_str[1] ELSE <<"unknown">>
    IN  {text[i] : i \in 1 .. Len(text)}

\* A Message::new that binds downcast_aggregate::<MultiSearchAggregator>
\* whatever T is.
Message_new_one_function(event, request, timestamp, id) ==
    [type_id |-> event.ty,
     aggregator_function |-> MultiSearchTy,
     event |-> [original |-> event,
                timestamp |-> timestamp,
                user_agents |-> extract_user_agents(request),
                total |-> 1,
                ids |-> {id}]]

\* Message::new::<T>(event, request).  id numbers the calls; the program
\* keeps no such field.
Message_new(event, request, timestamp, id) ==
    [type_id |-> event.ty,
     aggregator_function |-> event.ty,
     event |-> [original |-> event,
                timestamp |-> timestamp,
                user_agents |-> extract_user_agents(request),
                total |-> 1,
                ids |-> {id}]]

\* ----------------------------------------------------------------- inputs

\* A search query with every parameter left at its default.
DefaultSearchQuery ==
    [q |-> None, vector |-> None, offset |-> 0, limit |-> DEFAULT_SEARCH_LIMIT,
     page |-> None, hits_per_page |-> None, retrieve_vectors |-> FALSE,
     crop_length |-> DEFAULT_CROP_LENGTH, show_matches_position |-> FALSE,
     show_ranking_score |-> FALSE, show_ranking_score_details |-> FALSE,
     filter |-> None, sort |-> None, distinct |-> None,
     highlight_pre_tag |-> DEFAULT_HIGHLIGHT_PRE_TAG,
     highlight_post_tag |-> DEFAULT_HIGHLIGHT_POST_TAG,
     crop_marker |-> DEFAULT_CROP_MARKER, matching_strategy |-> "Last",
     attributes_to_search_on |-> None, hybrid |-> None,
     ranking_score_threshold |-> None, locales |-> None]

DefaultSimilarQuery ==
    [offset |-> 0, limit |-> DEFAULT_SEARCH_LIMIT, retrieve_vectors |-> FALSE,
     show_ranking_score |-> FALSE, show_ranking_score_details |-> FALSE,
     filter |-> None, ranking_score_threshold |-> None]

FilterString(s) == [kind |-> "String", s |-> s]
\* An array of strings.
FilterArray(vs) ==
    [kind |-> "Array", values |-> [i \in 1 .. Len(vs) |-> FilterString(vs[i])]]
\* An object, by its entries in the order they are written: each a key and
\* a value.
FilterObject(entries) == [kind |-> "Object", entries |-> entries]
\* A number, a boolean or null.
FilterOther == [kind |-> "Other"]

SearchResult(ms, degraded, negative) ==
    [processing_time_ms |-> ms, degraded |-> degraded,
     used_negative_operator |-> negative]
SimilarResult(ms) == [processing_time_ms |-> ms]

FederatedQuery(index_uid, score, details) ==
    [index_uid |-> index_uid, show_ranking_score |-> score,
     show_ranking_score_details |-> details]

\* The payload a route builds for one request: from_query (or
\* from_federated_search), then succeed when the request succeeded.
BuildPayload(r) ==
    CASE r.route = "search" ->
            LET p == SearchAggregator_from_query(r.query, r.method)
            IN  IF p = Panic \/ r.result = None THEN p
                ELSE SearchAggregator_succeed(p, r.result[1])
      [] r.route = "multi_search" ->
            LET p == from_federated_search(r.query)
            IN  IF r.result = None THEN p ELSE MultiSearchAggregator_succeed(p)
      [] r.route = "similar" ->
            LET p == SimilarAggregator_from_query(r.query, r.method)
            IN  IF r.result = None THEN p
                ELSE SimilarAggregator_succeed(p, r.result[1])

HttpRequest(analytics_header, user_agent) ==
    [analytics_header |-> analytics_header, user_agent |-> user_agent]

\* The requests the routes serve in the runs of the actor; the last carries
\* an X-Meilisearch-Client that is not a text.
Requests ==
    {[route |-> "search", method |-> "POST",
      query |-> [DefaultSearchQuery EXCEPT
                    !.filter = Some(FilterString(<<"x", "AND ", "x">>)),
                    !.page = Some(2)],
      result |-> Some(SearchResult(10, FALSE, FALSE)),
      request |-> HttpRequest(Some(<<"js", "react">>), Some(<<"Mozilla">>))],
     [route |-> "search", method |-> "POST",
      query |-> [DefaultSearchQuery EXCEPT
                    !.filter = Some(FilterArray(<<<<"x">>, <<"x">>>>)),
                    !.matching_strategy = "All"],
      result |-> None,
      request |-> HttpRequest(None, Some(<<"curl">>))],
     [route |-> "multi_search", method |-> "POST",
      query |-> [queries |-> <<FederatedQuery("movies", TRUE, FALSE),
                               FederatedQuery("books", FALSE, FALSE)>>,
                 federation |-> None],
      result |-> Some([succeeded |-> TRUE]),
      request |-> HttpRequest(Some(NotText), Some(<<"Mozilla">>))]}

\* ------------------------------------------------- Segment: the HashMap

\* HashMap::remove / HashMap::insert on the set of entries of the map.
map_remove(map, k) == {e \in map : e.type_id # k}

map_insert(map, k, v) == map_remove(map, k) \cup {[type_id |-> k, event |-> v]}

map_keys(map) == {e.type_id : e \in map}

map_get(map, k) == (CHOOSE e \in map : e.type_id = k).event

\* Variants of merged_event: the incoming timestamp kept, the incoming user
\* agents only, a wrapping sum of the totals.
merged_event_latest(old, event, original) ==
    [original |-> original,
     timestamp |-> event.timestamp,
     user_agents |-> old.user_agents \cup event.user_agents,
     total |-> saturating_add(old.total, event.total),
     ids |-> old.ids \cup event.ids]

merged_event_no_union(old, event, original) ==
    [original |-> original,
     timestamp |-> old.timestamp,
     user_agents |-> event.user_agents,
     total |-> saturating_add(old.total, event.total),
     ids |-> old.ids \cup event.ids]

merged_event_wrapping(old, event, original) ==
    [original |-> original,
     timestamp |-> old.timestamp,
     user_agents |-> old.user_agents \cup event.user_agents,
     total |-> wrapping_add(old.total, event.total),
     ids |-> old.ids \cup event.ids]

\* The Event handle_msg builds from the stored and the incoming one.  ids
\* (the calls of Message::new folded into the entry) is bookkeeping of the
\* model.
merged_event(old, event, original) ==
    [original |-> original,
     timestamp |-> old.timestamp,
     user_agents |-> old.user_agents \cup event.user_agents,
     total |-> saturating_add(old.total, event.total),
     ids |-> old.ids \cup event.ids]

\* A variant of handle_msg that stores the incoming event over the old one.
handle_msg_overwrite(map, msg) ==
    [panicked |-> FALSE, events |-> map_insert(map, msg.type_id, msg.event)]

\* Segment::handle_msg on the map: the map afterwards, and whether the
\* aggregator function panicked.
handle_msg(map, msg) ==
    IF msg.type_id \in map_keys(map)
    THEN LET old == map_get(map, msg.type_id)
             removed == map_remove(map, msg.type_id)
             merged == downcast_aggregate(msg.aggregator_function,
                                          old.original, msg.event.original)
         IN  IF merged = None
             THEN [panicked |-> FALSE, events |-> removed]
             ELSE IF merged[1] = Panic
             THEN [panicked |-> TRUE, events |-> removed]
             ELSE [panicked |-> FALSE,
                   events |-> map_insert(removed, msg.type_id,
                                         merged_event(old, msg.event, merged[1]))]
    ELSE [panicked |-> FALSE,
          events |-> map_insert(map, msg.type_id, msg.event)]

\* ------------------------------------------------------ the timer of run

\* const INTERVAL: Duration = Duration::from_secs(60 * 60), in half hours.
INTERVAL == 2

\* How far the clock is followed: to the deadline of the last tick.
MaxElapsed == MaxTicks * INTERVAL

\* tokio::time::interval(period): the first tick completes immediately.
interval(start, period) == start - period

\* tokio::time::interval_at(start, period): the first tick completes at
\* `start`; the value is the instant of the next tick.
interval_at(start, period) == start

\* Interval::tick, once the deadline is reached: the next tick is due one
\* period after this deadline (MissedTickBehavior::Burst, the default).
interval_tick(timeout, period) == timeout + period

\* The values of pc at which run is inside tick (awaiting the push of the
\* Identify, or in and after the loop over the events taken) and those at
\* which it is in its loop, and the user the records of this instance are
\* sent under.
InTick == {"identify", "export", "flush"}
Running == {"idle"} \cup InTick

\* The positions at which the task of run exists: "spawned" is the task
\* before its first poll, when run has not built its interval yet.
Live == {"spawned"} \cup Running
self_user == "instance_uid"

\* ------------------------------------------------------------ the producers

\* A route builds its aggregate and calls Message::new: the message is
\* stamped with the current time.
MessageNew(r, max) ==
    /\ pc \in Live
    /\ ~closed
    /\ Len(built) < max
    /\ BuildPayload(r) # Panic
    /\ LET msg == Message_new(BuildPayload(r), r.request, now, Len(built) + 1)
       IN  /\ built' = Append(built, msg)
           /\ pending' = pending \cup {msg}
    /\ now' = now + 1
    /\ UNCHANGED <<overflow_checks, clock_vars, tick_vars, inbox, dropped,
                   events, pc, taken, ticks, batcher, failures, last, arg, out>>

\* The message is handed to the mailbox.  The sending side is not in this
\* file: a full mailbox refuses the message (try_send); a sender that waits
\* for room instead is the run in which this step is taken once there is
\* room.
Deliver(msg) ==
    /\ ~closed
    /\ msg \in pending
    /\ pending' = pending \ {msg}
    /\ IF Len(inbox) < MailboxCapacity
       THEN inbox' = Append(inbox, msg) /\ dropped' = dropped
       ELSE inbox' = inbox /\ dropped' = dropped \cup msg.event.ids
    /\ UNCHANGED <<overflow_checks, clock_vars, tick_vars, now, built, events,
                   pc, taken, ticks, batcher, failures, last, arg>>

Send(msg) == Deliver(msg) /\ UNCHANGED out

\* The same, and out notes the messages the mailbox accepted while tick was
\* awaiting the sink, each with the number of that tick.
SendDuringTick(msg) ==
    /\ Deliver(msg)
    /\ out' = IF pc \in InTick /\ Len(inbox) < MailboxCapacity
              THEN [op |-> "accepted",
                    during |->
                       (IF out.op = "none" THEN {} ELSE out.during)
                       \cup {[id |-> id, tick |-> ticks] :
                                id \in msg.event.ids}]
              ELSE out

\* ---------------------------------------------------------------- the sink

\* The outcomes of one AutoBatcher::push or AutoBatcher::flush.
SinkOutcomes == IF failures < MaxSinkFailures THEN {TRUE, FALSE} ELSE {TRUE}

Failed(ok) == IF ok THEN failures ELSE failures + 1

\* ------------------------------------------------------- Segment: the actor

\* A handle_msg that runs on a task of its own, whatever tick is doing.
HandleMsg_concurrent ==
    /\ pc \in Running
    /\ inbox # <<>>
    /\ LET msg == Head(inbox)
           res == handle_msg(events, msg)
       IN  /\ events' = res.events
           /\ pc' = IF res.panicked THEN "panicked" ELSE pc
           /\ last' = [op |-> "handle_msg", msg |-> msg, before |-> events]
    /\ inbox' = Tail(inbox)
    /\ UNCHANGED <<overflow_checks, clock_vars, tick_vars, now, built, pending,
                   dropped, taken, ticks, batcher, failures, arg, out>>

\* A loop that ends when recv() returns None.
HandleMsg_or_break ==
    /\ pc = "idle"
    /\ IF inbox # <<>>
       THEN LET msg == Head(inbox)
                res == handle_msg(events, msg)
            IN  /\ events' = res.events
                /\ pc' = IF res.panicked THEN "panicked" ELSE "idle"
                /\ last' = [op |-> "handle_msg", msg |-> msg, before |-> events]
                /\ inbox' = Tail(inbox)
       ELSE /\ closed
            /\ pc' = "returned"
            /\ UNCHANGED <<events, last, inbox>>
    /\ UNCHANGED <<overflow_checks, clock_vars, tick_vars, now, built, pending,
                   dropped, taken, ticks, batcher, failures, arg, out>>

\* run, the mailbox branch of select!: handle_msg on the next message.  When
\* recv() returns None the pattern Some(msg) does not match and the branch
\* is disabled: select! goes on waiting for the timer.
HandleMsg ==
    /\ pc = "idle"
    /\ inbox # <<>>
    /\ LET msg == Head(inbox)
           res == handle_msg(events, msg)
       IN  /\ events' = res.events
           /\ pc' = IF res.panicked THEN "panicked" ELSE "idle"
           /\ last' = [op |-> "handle_msg", msg |-> msg, before |-> events]
    /\ inbox' = Tail(inbox)
    /\ UNCHANGED <<overflow_checks, clock_vars, tick_vars, now, built, pending,
                   dropped, taken, ticks, batcher, failures, arg, out>>

\* std::mem::take(&mut self.events): the value taken and the value left.
mem_take_clone(map) == [taken |-> map, left |-> map]

mem_take(map) == [taken |-> map, left |-> {}]

\* What tick pushes for the instance: the Identify when create_all_stats
\* returned Ok, nothing otherwise.
identify_always(stats_ok, tick, ok) ==
    <<[kind |-> "Identify", tick |-> tick, ok |-> ok, user |-> self_user]>>

identify_push(stats_ok, tick, ok) ==
    IF stats_ok
    THEN <<[kind |-> "Identify", tick |-> tick, ok |-> ok, user |-> self_user]>>
    ELSE <<>>

\* run, the timer branch of select!; tick up to its first await:
\* create_all_stats and, when it succeeded, the push of the Identify, which
\* is awaited with the map still in place; when it failed, nothing is
\* awaited before the map is taken.
TickBegin ==
    /\ pc = "idle"
    /\ ticks < MaxTicks
    /\ elapsed >= deadline
    /\ deadline' = interval_tick(deadline, INTERVAL)
    /\ ticks' = ticks + 1
    /\ now' = now + 1
    /\ \E stats_ok \in BOOLEAN : \E ok \in SinkOutcomes :
          /\ stats' = Append(stats, stats_ok)
          /\ batcher' = batcher \o identify_push(stats_ok, ticks + 1, ok)
          /\ IF stats_ok
             THEN /\ failures' = Failed(ok)
                  /\ pc' = "identify"
                  /\ last' = [op |-> "identify", before |-> events,
                              closed |-> closed]
                  /\ UNCHANGED <<events, taken>>
             ELSE /\ ok
                  /\ failures' = failures
                  /\ taken' = mem_take(events).taken
                  /\ events' = mem_take(events).left
                  /\ pc' = "export"
                  /\ last' = [op |-> "tick", before |-> events,
                              closed |-> closed]
    /\ UNCHANGED <<overflow_checks, clock_vars, built, pending, inbox, dropped,
                   arg, out>>

\* The push of the Identify has completed: let events =
\* std::mem::take(&mut self.events).
TickTake ==
    /\ pc = "identify"
    /\ taken' = mem_take(events).taken
    /\ events' = mem_take(events).left
    /\ pc' = "export"
    /\ last' = [op |-> "tick", before |-> events, closed |-> closed]
    /\ UNCHANGED <<overflow_checks, clock_vars, tick_vars, now, built, pending,
                   inbox, dropped, ticks, batcher, failures, arg, out>>

\* Indexing for writing (IndexMut<&str>) panics on a value that is neither
\* null nor an object.
index_mut_panics(v) == ~is_null(v) /\ ~is_object(v)

\* obj[key] = value: null becomes an empty object first.
json_set(obj, key, value) ==
    IF index_mut_panics(obj) THEN Panic
    ELSE LET keys == IF is_null(obj) THEN {} ELSE DOMAIN obj
         IN  [k \in keys \cup {key} |-> IF k = key THEN value ELSE obj[k]]

\* Both defaults written whatever into_event returned.
back_fill_overwrite(properties, user_agents, total) ==
    LET with_agents == json_set(properties, "user_agent", JSet(user_agents))
    IN  IF with_agents = Panic THEN Panic
        ELSE LET inner == json_set(JsonGet(with_agents, "requests"),
                                   "total_received", JNum(total))
             IN  IF inner = Panic THEN Panic
                 ELSE json_set(with_agents, "requests", inner)

\* The two defaults of tick: written where into_event left null.  Writing
\* panics when properties, or its "requests", is neither null nor an object.
back_fill(properties, user_agents, total) ==
    LET with_agents ==
            IF is_null(JsonGet(properties, "user_agent"))
            THEN json_set(properties, "user_agent", JSet(user_agents))
            ELSE properties
    IN  IF with_agents = Panic THEN Panic
        ELSE LET requests == JsonGet(with_agents, "requests")
             IN  IF is_null(JsonGet(requests, "total_received"))
                 THEN LET inner == json_set(requests, "total_received",
                                            JNum(total))
                      IN  IF inner = Panic THEN Panic
                          ELSE json_set(with_agents, "requests", inner)
                 ELSE with_agents

\* The properties of one Track: into_event, then the two defaults.
track_properties(event, syntax_order, strategy_order) ==
    CHOOSE properties \in
        {back_fill(returned, event.user_agents, event.total) :
            returned \in {into_event(event.original, syntax_order,
                                     strategy_order)}} : TRUE

\* The entries the loop has still to visit after the push of entry e: the
\* result of the push is not looked at.
unvisited_retry(entries, e, ok) == IF ok THEN entries \ {e} ELSE entries

\* A loop that stops after its first push.
unvisited_break(entries, e, ok) == {}

unvisited(entries, e, ok) == entries \ {e}

\* One iteration of `for (_, event) in events`: the push of one Track, or
\* the panic of the back-fill, which ends the task with the entries not
\* yet visited.
TickPush ==
    /\ pc = "export"
    /\ \E e \in taken :
       \E syntax_order \in IterOrders(SyntaxKeys(e.event.original)) :
       \E strategy_order \in IterOrders(StrategyKeys(e.event.original)) :
       \E ok \in SinkOutcomes :
       \E properties \in {track_properties(e.event, syntax_order,
                                            strategy_order)} :
          IF properties = Panic
          THEN /\ pc' = "panicked"
               /\ taken' = {}
               /\ UNCHANGED <<batcher, failures>>
          ELSE /\ pc' = pc
               /\ taken' = unvisited(taken, e, ok)
               /\ batcher' = Append(batcher,
                     [kind |-> "Track", tick |-> ticks, ok |-> ok,
                      user |-> self_user,
                      event |-> event_name(e.event.original),
                      properties |-> properties,
                      timestamp |-> Some(e.event.timestamp),
                      type_id |-> e.type_id,
                      ids |-> e.event.ids])
               /\ failures' = Failed(ok)
    /\ UNCHANGED <<overflow_checks, clock_vars, tick_vars, now, built, pending,
                   inbox, dropped, events, ticks, last, arg, out>>

\* A tick that asks for a flush only when its loop pushed something.
TickFlush_when_pushed ==
    /\ pc = "export"
    /\ taken = {}
    /\ \E ok \in SinkOutcomes :
          /\ batcher' = IF last.before = {} THEN batcher
                        ELSE Append(batcher,
                               [kind |-> "Flush", tick |-> ticks, ok |-> ok])
          /\ failures' = IF last.before = {} THEN failures ELSE Failed(ok)
    /\ pc' = "flush"
    /\ UNCHANGED <<overflow_checks, clock_vars, tick_vars, now, built, pending,
                   inbox, dropped, events, taken, ticks, last, arg, out>>

\* let _ = self.batcher.flush(): the loop is over and the sink is asked to
\* flush; tick awaits the answer.
TickFlush ==
    /\ pc = "export"
    /\ taken = {}
    /\ \E ok \in SinkOutcomes :
          /\ batcher' = Append(batcher,
                [kind |-> "Flush", tick |-> ticks, ok |-> ok])
          /\ failures' = Failed(ok)
    /\ pc' = "flush"
    /\ UNCHANGED <<overflow_checks, clock_vars, tick_vars, now, built, pending,
                   inbox, dropped, events, taken, ticks, last, arg, out>>

\* .await: the flush has completed, its result is dropped, and tick returns
\* to the select! of run.
TickReturn ==
    /\ pc = "flush"
    /\ pc' = "idle"
    /\ last' = [op |-> "tick_done", before |-> last.before,
                closed |-> last.closed]
    /\ UNCHANGED <<overflow_checks, clock_vars, tick_vars, now, built, pending,
                   inbox, dropped, events, taken, ticks, batcher, failures,
                   arg, out>>

\* The state when run, polled for the first time as the actor is spawned,
\* has built its interval (lines 389-390), or a later state of the loop
\* before the first deadline: `res` is what the handle_msg made so far have
\* left, the map of Segment.events and whether one of them panicked.
InitActor(res) ==
    /\ overflow_checks \in BOOLEAN
    /\ now = 0
    /\ built = <<>>
    /\ pending = {}
    /\ inbox = <<>>
    /\ dropped = {}
    /\ events = res.events
    /\ pc = IF res.panicked THEN "panicked" ELSE "idle"
    /\ taken = {}
    /\ ticks = 0
    /\ batcher = <<>>
    /\ failures = 0
    /\ last = [op |-> "init"]
    /\ arg = <<>>
    /\ out = <<>>
    /\ startup = [first_time_run |-> FALSE, client_is_err |-> FALSE]
    /\ elapsed = 0
    /\ deadline = interval_at(0 + INTERVAL, INTERVAL)
    /\ stats = <<>>
    /\ closed = FALSE

\* events: HashMap::new()
Init == InitActor([panicked |-> FALSE, events |-> {}])

Produce == \E r \in Requests : MessageNew(r, MaxMsgs)

Enqueue == \E msg \in pending : Send(msg)

\* Half an hour passes.
Advance ==
    /\ pc \in Live
    /\ elapsed < MaxElapsed
    /\ elapsed' = elapsed + 1
    /\ UNCHANGED <<overflow_checks, startup, closed, tick_vars, now, built,
                   pending, inbox, dropped, events, pc, taken, ticks, batcher,
                   failures, last, arg, out>>

\* The last Sender of the mailbox is dropped: from now on recv() returns the
\* messages still queued, then None.
DropSenders ==
    /\ pc \in Live
    /\ ~closed
    /\ pending = {}
    /\ closed' = TRUE
    /\ UNCHANGED <<overflow_checks, startup, elapsed, tick_vars, now, built,
                   pending, inbox, dropped, events, pc, taken, ticks, batcher,
                   failures, last, arg, out>>

Next ==
    \/ Produce
    \/ Enqueue
    \/ HandleMsg
    \/ TickBegin
    \/ TickTake
    \/ TickPush
    \/ TickFlush
    \/ TickReturn
    \/ Advance
    \/ DropSenders

Spec == Init /\ [][Next]_vars

\* The run of the actor with the acceptances during a tick noted in out.
EnqueueDuringTick == \E msg \in pending : SendDuringTick(msg)

NextDuringTick ==
    \/ Produce
    \/ EnqueueDuringTick
    \/ HandleMsg
    \/ TickBegin
    \/ TickTake
    \/ TickPush
    \/ TickFlush
    \/ TickReturn
    \/ Advance
    \/ DropSenders

\* The same with the scheduling of the run loop: time passes, the timer
\* branch is taken once its interval is due (select! picks among its ready
\* branches at random, so a ready timer is not passed over for ever), and
\* the sink's futures complete.  One of these steps is taken whenever one
\* is possible.
SpecLive ==
    /\ Spec
    /\ WF_vars(Advance \/ TickBegin \/ TickTake \/ TickPush \/ TickFlush
                 \/ TickReturn)

\* ---------------------------------------------------- SegmentAnalytics::new

\* new, once the reqwest client is built or not: return None, or go on to the
\* Launched events of a first run, or straight to the channel and the spawn.
after_client_unchecked(s) ==
    IF s.first_time_run THEN "launched_total" ELSE "spawn"

after_client_always_first(s) ==
    IF s.client_is_err THEN "none" ELSE "launched_total"

after_client(s) ==
    IF s.client_is_err THEN "none"
    ELSE IF s.first_time_run THEN "launched_total" ELSE "spawn"

\* Track { user, event: "Launched", ..Default::default() }
Launched(user, ok) ==
    [kind |-> "Track", tick |-> 0, ok |-> ok, user |-> user,
     event |-> "Launched", properties |-> JNull, timestamp |-> None,
     type_id |-> "", ids |-> {}]

\* find_user_id, write_user_id, reqwest::Client::builder()...build()
NewClient ==
    /\ pc = "new"
    /\ pc' = after_client(startup)
    /\ UNCHANGED <<overflow_checks, clock_vars, tick_vars, now, built, pending,
                   inbox, dropped, events, taken, ticks, batcher, failures,
                   last, arg, out>>

\* The sink operation of new at `at`, then on to `next`.
NewSink(at, record, next) ==
    /\ pc = at
    /\ \E ok \in SinkOutcomes :
          /\ batcher' = Append(batcher, [record EXCEPT !.ok = ok])
          /\ failures' = Failed(ok)
    /\ pc' = next
    /\ UNCHANGED <<overflow_checks, clock_vars, tick_vars, now, built, pending,
                   inbox, dropped, events, taken, ticks, last, arg, out>>

\* let _ = batcher.push(Track { user: total_launch, .. }).await;
NewLaunchedTotal ==
    NewSink("launched_total", Launched("total_launch", TRUE), "launched_flush")

\* let _ = batcher.flush().await;
NewLaunchedFlush ==
    NewSink("launched_flush", [kind |-> "Flush", tick |-> 0, ok |-> TRUE],
            "launched_user")

\* A startup that flushes after the second Launched as after the first.
NewLaunchedUser_then_flush ==
    /\ pc = "launched_user"
    /\ \E ok \in SinkOutcomes :
          /\ batcher' = batcher \o
                <<[Launched(self_user, TRUE) EXCEPT !.ok = ok],
                  [kind |-> "Flush", tick |-> 0, ok |-> ok]>>
          /\ failures' = Failed(ok)
    /\ pc' = "spawn"
    /\ UNCHANGED <<overflow_checks, clock_vars, tick_vars, now, built, pending,
                   inbox, dropped, events, taken, ticks, last, arg, out>>

\* let _ = batcher.push(Track { user: user.clone(), .. }).await;
NewLaunchedUser ==
    NewSink("launched_user", Launched(self_user, TRUE), "spawn")

\* mpsc::channel(100), the Segment with HashMap::new(), tokio::spawn of run;
\* mpsc::channel(100), the Segment with an empty map, and tokio::spawn of
\* run, which is not polled yet; elapsed counts from here.
NewSpawn ==
    /\ pc = "spawn"
    /\ inbox' = <<>>
    /\ events' = {}
    /\ pc' = "spawned"
    /\ elapsed' = 0
    /\ last' = [op |-> "spawned"]
    /\ UNCHANGED <<overflow_checks, startup, closed, stats, deadline, now,
                   built, pending, dropped, taken, ticks, batcher, failures,
                   arg, out>>

\* The first poll of run, whenever the runtime makes it: run builds its
\* interval, first deadline one INTERVAL from now, and enters the loop.
RunInterval ==
    /\ pc = "spawned"
    /\ deadline' = interval_at(elapsed + INTERVAL, INTERVAL)
    /\ pc' = "idle"
    /\ last' = [op |-> "polled", at |-> elapsed]
    /\ UNCHANGED <<overflow_checks, startup, closed, stats, elapsed, now,
                   built, pending, inbox, dropped, events, taken, ticks,
                   batcher, failures, arg, out>>

\* The process before SegmentAnalytics::new is called.
InitNew ==
    /\ overflow_checks \in BOOLEAN
    /\ now = 0
    /\ built = <<>>
    /\ pending = {}
    /\ inbox = <<>>
    /\ dropped = {}
    /\ events = {}
    /\ pc = "new"
    /\ taken = {}
    /\ ticks = 0
    /\ batcher = <<>>
    /\ failures = 0
    /\ last = [op |-> "init"]
    /\ arg = <<>>
    /\ out = <<>>
    /\ startup \in [first_time_run : BOOLEAN, client_is_err : BOOLEAN]
    /\ elapsed = 0
    /\ deadline = None
    /\ stats = <<>>
    /\ closed = FALSE

NextNew ==
    \/ NewClient
    \/ NewLaunchedTotal
    \/ NewLaunchedFlush
    \/ NewLaunchedUser
    \/ NewSpawn
    \/ RunInterval
    \/ Next

\* new, then the actor it spawned.
SpecNew == InitNew /\ [][NextNew]_vars

\* A Message whose three parts need not agree: handle_msg accepts any value
\* of the type, although Message::new only builds agreeing ones.
Forge(r, type_id) ==
    /\ pc \in Running
    /\ ~closed
    /\ Len(built) < MaxMsgs
    /\ BuildPayload(r) # Panic
    /\ type_id # BuildPayload(r).ty
    /\ LET msg == [Message_new(BuildPayload(r), r.request, now, Len(built) + 1)
                      EXCEPT !.type_id = type_id]
       IN  /\ built' = Append(built, msg)
           /\ pending' = pending \cup {msg}
    /\ now' = now + 1
    /\ UNCHANGED <<overflow_checks, clock_vars, tick_vars, inbox, dropped,
                   events, pc, taken, ticks, batcher, failures, last, arg, out>>

ProduceForged ==
    \E r \in Requests : \E type_id \in {BuildPayload(q).ty : q \in Requests} :
        Forge(r, type_id)

NextForged == Next \/ ProduceForged

\* The actor fed with arbitrary Message values.
SpecForged == Init /\ [][NextForged]_vars

\* What n requests r, all handled before the first tick, leave: handle_msg
\* on each in turn from `res`, up to the one that panics, if one does.
RECURSIVE FoldedFrom(_, _, _)
FoldedFrom(res, r, n) ==
    IF n = 0 \/ res.panicked THEN res
    ELSE IF n = 1
    THEN CHOOSE after \in
            {handle_msg(res.events,
                        Message_new(BuildPayload(r), r.request, 0, 0))} :
                after = after
    ELSE CHOOSE after \in
            {FoldedFrom(half, r, n - n \div 2) :
                half \in {FoldedFrom(res, r, n \div 2)}} : TRUE

Folded(r, n) == FoldedFrom([panicked |-> FALSE, events |-> {}], r, n)

InitSaturated == \E r \in Requests : InitActor(Folded(r, UsizeMax - 1))

\* The actor after it has handled all but one of the UsizeMax requests that
\* fill a counter.
SpecSaturated == InitSaturated /\ [][Next]_vars

\* ------------------------------------------- the payload functions alone

\* The requests whose payloads the payload functions are applied to.
MergeRequests ==
    {[route |-> "search", method |-> "POST",
      query |-> [DefaultSearchQuery EXCEPT
                    !.q = Some(<<"a", " ", "b">>),
                    !.filter = Some(FilterString(<<"x", "AND ", "_geoRadius(", "x">>)),
                    !.sort = Some(<<<<"_geoPoint(", "x">>, <<"x">>>>),
                    !.page = Some(2),
                    !.locales = Some(<<"eng">>)],
      result |-> Some(SearchResult(10, FALSE, FALSE))],
     [route |-> "search", method |-> "POST",
      query |-> [DefaultSearchQuery EXCEPT
                    !.filter = Some(FilterArray(<<<<"x">>, <<"x">>>>)),
                    !.vector = Some(<<0, 0, 0>>),
                    !.hybrid = Some([semantic_ratio |-> 70]),
                    !.matching_strategy = "All",
                    !.limit = 5,
                    !.offset = 3,
                    !.locales = Some(<<"fra", "eng">>)],
      result |-> None],
     [route |-> "search", method |-> "POST",
      query |-> [DefaultSearchQuery EXCEPT
                    !.hits_per_page = Some(4),
                    !.show_ranking_score = TRUE],
      result |-> Some(SearchResult(7, TRUE, TRUE))],
     [route |-> "search", method |-> "GET",
      query |-> [DefaultSearchQuery EXCEPT
                    !.filter = Some(FilterObject(
                        <<[key |-> <<"a">>,
                           value |-> FilterString(<<"x", "AND ", "x">>)],
                          [key |-> <<"k">>,
                           value |-> FilterString(<<"_geoRadius(", "x">>)]>>))],
      result |-> None],
     [route |-> "similar", method |-> "POST",
      query |-> [DefaultSimilarQuery EXCEPT
                    !.filter = Some(FilterObject(
                        <<[key |-> <<"a">>,
                           value |-> FilterString(<<"x", " OR", "x">>)]>>))],
      result |-> None],
     [route |-> "similar", method |-> "GET",
      query |-> [DefaultSimilarQuery EXCEPT
                    !.filter = Some(FilterString(<<"x", " OR", "x">>)),
                    !.limit = 5],
      result |-> Some(SimilarResult(10))],
     [route |-> "similar", method |-> "GET",
      query |-> [DefaultSimilarQuery EXCEPT
                    !.filter = Some(FilterArray(<<<<"x", "AND ", "x">>>>)),
                    !.offset = 2,
                    !.retrieve_vectors = TRUE],
      result |-> None],
     [route |-> "multi_search", method |-> "POST",
      query |-> [queries |-> <<FederatedQuery("movies", TRUE, FALSE),
                               FederatedQuery("books", FALSE, FALSE)>>,
                 federation |-> None],
      result |-> Some([succeeded |-> TRUE])],
     [route |-> "multi_search", method |-> "POST",
      query |-> [queries |-> <<FederatedQuery("movies", FALSE, TRUE)>>,
                 federation |-> Some([limit |-> 20])],
      result |-> None]}

\* aggregate on the payloads of two computations, either of which may have
\* panicked.
Agg(this, other) ==
    IF this = Panic \/ other = Panic THEN Panic
    ELSE aggregate(this.ty, this, other)

\* The payload of n requests r merged one after the other.
RECURSIVE RepeatedFrom(_, _, _)
RepeatedFrom(p, r, n) ==
    IF n = 0 THEN p
    ELSE IF n = 1 THEN Agg(p, BuildPayload(r))
    ELSE CHOOSE after \in
            {RepeatedFrom(half, r, n - n \div 2) :
                half \in {RepeatedFrom(p, r, n \div 2)}} : TRUE

Repeated(r, n) == RepeatedFrom(BuildPayload(r), r, n - 1)

\* The payloads of single requests, and of UsizeMax - 1 equal requests.
PayloadInputs ==
    ({BuildPayload(r) : r \in MergeRequests}
     \cup {Repeated(r, UsizeMax - 1) :
             r \in {x \in MergeRequests : x.result # None}}) \ {Panic}

InitMerge ==
    /\ overflow_checks \in BOOLEAN
    /\ now = 0
    /\ built = <<>>
    /\ pending = {}
    /\ inbox = <<>>
    /\ dropped = {}
    /\ events = {}
    /\ pc = "idle"
    /\ taken = {}
    /\ ticks = 0
    /\ batcher = <<>>
    /\ failures = 0
    /\ last = [op |-> "init"]
    /\ startup = [first_time_run |-> FALSE, client_is_err |-> FALSE]
    /\ elapsed = 0
    /\ deadline = interval_at(0 + INTERVAL, INTERVAL)
    /\ stats = <<>>
    /\ closed = FALSE
    /\ \E inputs \in {PayloadInputs} :
       \E a \in inputs :
       \E b \in {p \in inputs : p.ty = a.ty} :
       \E c \in {p \in inputs : p.ty = a.ty} :
          arg = [a |-> a, b |-> b, c |-> c]
    /\ out = [op |-> "none"]

\* aggregate(a, b) and aggregate(b, a)
AggregateBothWays ==
    /\ out.op = "none"
    /\ out' = [op |-> "aggregate2",
               ab |-> Agg(arg.a, arg.b),
               ba |-> Agg(arg.b, arg.a)]
    /\ UNCHANGED <<overflow_checks, actor_vars, arg>>

\* into_event of both, each map iterating in an order of its own
ExportBothWays ==
    /\ out.op = "aggregate2"
    /\ out.ab # Panic
    /\ out.ba # Panic
    /\ \E so1 \in IterOrders(SyntaxKeys(out.ab)) :
       \E st1 \in IterOrders(StrategyKeys(out.ab)) :
       \E so2 \in IterOrders(SyntaxKeys(out.ba)) :
       \E st2 \in IterOrders(StrategyKeys(out.ba)) :
          out' = [op |-> "export2",
                  ab |-> out.ab,
                  ba |-> out.ba,
                  event_ab |-> into_event(out.ab, so1, st1),
                  event_ba |-> into_event(out.ba, so2, st2)]
    /\ UNCHANGED <<overflow_checks, actor_vars, arg>>

\* aggregate(aggregate(a, b), c) and aggregate(a, aggregate(b, c))
AggregateThree ==
    /\ out.op = "none"
    /\ out' = [op |-> "aggregate3",
               ab_c |-> Agg(Agg(arg.a, arg.b), arg.c),
               a_bc |-> Agg(arg.a, Agg(arg.b, arg.c))]
    /\ UNCHANGED <<overflow_checks, actor_vars, arg>>

NextMerge ==
    \/ AggregateBothWays
    \/ ExportBothWays
    \/ AggregateThree

SpecMerge == InitMerge /\ [][NextMerge]_vars

\* ----------------------------------------------- the defaults of tick alone

\* The state of an actor that has done nothing, with `a` for the function
\* under evaluation.
InitFunction(a) ==
    /\ overflow_checks \in BOOLEAN
    /\ now = 0
    /\ built = <<>>
    /\ pending = {}
    /\ inbox = <<>>
    /\ dropped = {}
    /\ events = {}
    /\ pc = "idle"
    /\ taken = {}
    /\ ticks = 0
    /\ batcher = <<>>
    /\ failures = 0
    /\ last = [op |-> "init"]
    /\ startup = [first_time_run |-> FALSE, client_is_err |-> FALSE]
    /\ elapsed = 0
    /\ deadline = interval_at(0 + INTERVAL, INTERVAL)
    /\ stats = <<>>
    /\ closed = FALSE
    /\ arg = a
    /\ out = [op |-> "none"]

\* What into_event returns: for the kinds of this file, and for kinds
\* implemented elsewhere, which may fill the defaults themselves, leave
\* them out, have no "requests" object at all, or return a value, or a
\* "requests", that is not an object.
ExportedProperties ==
    UNION {{into_event(payload, syntax_order, strategy_order) :
                syntax_order \in IterOrders(SyntaxKeys(payload)),
                strategy_order \in IterOrders(StrategyKeys(payload))} :
           payload \in {BuildPayload(r) : r \in MergeRequests}}
    \cup
    {JNull,
     [version |-> JNum(1)],
     [user_agent |-> JSet({"cli"}), version |-> JNum(1)],
     [user_agent |-> JNull, requests |-> JNull],
     [requests |-> [total_received |-> JNum(3)]],
     [requests |-> [total_succeeded |-> JNum(1)]],
     [user_agent |-> JSet({"cli"}),
      requests |-> [total_received |-> JNull, total_succeeded |-> JNum(1)]],
     [user_agent |-> JSet({}),
      requests |-> [total_received |-> JNum(0)]],
     JNum(3),
     JStr("s"),
     [requests |-> JNum(3)],
     [user_agent |-> JSet({"cli"}), requests |-> JBool(FALSE)]}

InitExport ==
    \E properties \in ExportedProperties :
    \E user_agents \in {{}, {"unknown"}, {"js", "react"}} :
    \E total \in {1, 2, UsizeMax} :
        InitFunction([properties |-> properties, user_agents |-> user_agents,
                      total |-> total])

\* The two `if ... .is_null()` of tick on one into_event result.
BackFill ==
    /\ out.op = "none"
    /\ out' = [op |-> "back_fill",
               properties |-> back_fill(arg.properties, arg.user_agents,
                                        arg.total)]
    /\ UNCHANGED <<overflow_checks, actor_vars, arg>>

SpecExport == InitExport /\ [][BackFill]_vars

\* ------------------------------------------- the response times alone

\* The response times of the spec's example: 10, 20, ..., 100.
TenSamples == {10 * i : i \in 1 .. 10}

\* The heaps of response times exported: no sample, any choice among the
\* ten samples, repeated samples, and heaps of about a hundred and two
\* hundred samples, where the index leaves the last position.
SampleHeaps ==
    {SetToBag(s) : s \in SUBSET TenSamples}
    \cup {[v \in {10, 20} |-> IF v = 10 THEN n ELSE 1] :
            n \in {2, 98, 99, 100, 199}}
    \cup {[v \in {10, 20} |-> IF v = 10 THEN 1 ELSE n] : n \in {2, 99, 199}}

\* A Search or Similar payload whose requests took the times of `heap`.
InitPercentile ==
    \E r \in {x \in MergeRequests :
                x.route \in {"search", "similar"} /\ x.result # None} :
    \E heap \in SampleHeaps :
        InitFunction([payload |-> [BuildPayload(r) EXCEPT !.time_spent = heap]])

\* into_event of that payload.
ExportPercentile ==
    /\ out.op = "none"
    /\ \E syntax_order \in IterOrders(SyntaxKeys(arg.payload)) :
       \E strategy_order \in IterOrders(StrategyKeys(arg.payload)) :
          out' = [op |-> "into_event",
                  event |-> into_event(arg.payload, syntax_order,
                                       strategy_order)]
    /\ UNCHANGED <<overflow_checks, actor_vars, arg>>

SpecPercentile == InitPercentile /\ [][ExportPercentile]_vars

\* ---------------------------------------- run fed by the search route

\* How many searches the route of one method serves.
MaxEvents == 3

\* A search request on the route of `method` that succeeded or failed.
SearchRequest(method, succeeded, degraded) ==
    [route |-> "search", method |-> method,
     query |-> DefaultSearchQuery,
     result |-> IF succeeded THEN Some(SearchResult(10, degraded, FALSE))
                ELSE None,
     request |-> HttpRequest(None, None)]

\* The actor at the first select! of run, with the method of the search
\* route in arg.
InitCount == \E method \in {"GET", "POST"} : InitFunction([method |-> method])

\* The searches noted in out as having succeeded, by the number Message::new
\* gave them.
SucceededSearches == IF out.op = "none" THEN {} ELSE out.succeeded

\* The search route serves a request: from_query, succeed when the search
\* succeeded, and Message::new; the message is then up for sending.  out
\* notes the requests that succeeded.
ProduceSearch ==
    /\ pc \in Live
    /\ ~closed
    /\ Len(built) < MaxEvents
    /\ \E succeeded \in BOOLEAN :
          LET r == SearchRequest(arg.method, succeeded, FALSE)
              id == Len(built) + 1
              msg == Message_new(BuildPayload(r), r.request, now, id)
          IN  /\ built' = Append(built, msg)
              /\ pending' = pending \cup {msg}
              /\ out' = [op |-> "searches",
                         succeeded |-> SucceededSearches
                                         \cup (IF succeeded THEN {id} ELSE {})]
    /\ now' = now + 1
    /\ UNCHANGED <<overflow_checks, clock_vars, tick_vars, inbox, dropped,
                   events, pc, taken, ticks, batcher, failures, last, arg>>

NextCount ==
    \/ ProduceSearch
    \/ Enqueue
    \/ HandleMsg
    \/ TickBegin
    \/ TickTake
    \/ TickPush
    \/ TickFlush
    \/ TickReturn
    \/ Advance

\* run fed by the search route of one method alone.
SpecCount == InitCount /\ [][NextCount]_vars

\* ------------------------------ the mailbox branch of run, on every kind

\* The requests of MergeRequests, each as a route receives it.
FoldRequests ==
    {[route |-> r.route, method |-> r.method, query |-> r.query,
      result |-> r.result, request |-> HttpRequest(None, None)] :
        r \in MergeRequests}

\* The actor with an empty map, or after it has handled UsizeMax - 1
\* requests of one kind.
InitFold ==
    \E r \in FoldRequests : \E n \in {0, UsizeMax - 1} : InitActor(Folded(r, n))

ProduceFold == \E r \in FoldRequests : MessageNew(r, MaxEvents)

NextFold ==
    \/ ProduceFold
    \/ Enqueue
    \/ HandleMsg

\* The producers, the mailbox and the mailbox branch of run, over every
\* kind of this file; the timer is not followed.
SpecFold == InitFold /\ [][NextFold]_vars

\* ------------------------------------------- acceptances during a tick

InitDuringTick == InitFunction(<<>>)

SpecDuringTick == InitDuringTick /\ [][NextDuringTick]_vars

\* ------------------------------------------------------ from_query alone

\* Values of page and hitsPerPage in a request: absent, small, and up to
\* the largest usize.
PageValues ==
    {None} \cup {Some(n) : n \in {0, 1, 2, 3, 100, USIZE_MAX - 1, USIZE_MAX}}

InitFromQuery ==
    \E method \in {"GET", "POST"} :
    \E page \in PageValues :
    \E hits_per_page \in PageValues :
        InitFunction([method |-> method,
                      query |-> [DefaultSearchQuery EXCEPT
                                    !.page = page,
                                    !.hits_per_page = hits_per_page]])

\* SearchAggregator::from_query on the request path.
FromQuery ==
    /\ out.op = "none"
    /\ out' = [op |-> "from_query",
               payload |-> SearchAggregator_from_query(arg.query, arg.method)]
    /\ UNCHANGED <<overflow_checks, actor_vars, arg>>

SpecFromQuery == InitFromQuery /\ [][FromQuery]_vars

\* ------------------------------------------------------------------ claims

Tracks == {i \in 1 .. Len(batcher) : batcher[i].kind = "Track"}

\* The latest actor step was a handle_msg that found an entry of the
\* message's kind.
HandledPresent ==
    /\ last.op = "handle_msg"
    /\ last.msg.type_id \in map_keys(last.before)

\* ... and the aggregator function returned a payload that was stored.
HandledMerged ==
    /\ HandledPresent
    /\ pc # "panicked"
    /\ downcast_aggregate(last.msg.aggregator_function,
                          map_get(last.before, last.msg.type_id).original,
                          last.msg.event.original) # None

\* C1: the map holds at most one entry per kind; handle_msg on a kind that
\* has an entry replaces it by the merge of the two (the number of entries
\* stays the same, the other entries are untouched), and handle_msg on a
\* kind without an entry adds the incoming event as it is.
C1_OneEnvelopePerKind ==
    /\ \A k \in map_keys(events) : Cardinality({e \in events : e.type_id = k}) = 1
    /\ last.op = "handle_msg" =>
         LET k == last.msg.type_id
         IN  /\ map_remove(events, k) = map_remove(last.before, k)
             /\ IF k \in map_keys(last.before)
                THEN /\ Cardinality(events) = Cardinality(last.before)
                     /\ k \in map_keys(events)
                     /\ map_get(events, k).original
                          = aggregate(k, map_get(last.before, k).original,
                                      last.msg.event.original)
                ELSE /\ Cardinality(events) = Cardinality(last.before) + 1
                     /\ [type_id |-> k, event |-> last.msg.event] \in events

C1_Witness ==
    /\ HandledMerged
    /\ Cardinality(events) = 1

\* C2: no call of Message::new is counted in two Track records, and what a
\* Track record counts is in the map no more (nor among the entries the
\* running tick still has to export).
C2_NoEventInTwoReports ==
    /\ \A i, j \in Tracks : i # j => batcher[i].ids \cap batcher[j].ids = {}
    /\ \A i \in Tracks : \A e \in events \cup taken :
          batcher[i].ids \cap e.event.ids = {}

C2_Witness ==
    \E i, j \in Tracks :
        /\ batcher[i].tick = 1
        /\ batcher[j].tick = 2
        /\ batcher[i].type_id = batcher[j].type_id

\* C3: when tick returns, the map has no entry for any kind it had when the
\* tick began, whatever the outcomes of the pushes and of the flush.
C3_StoreEmptyAfterTick ==
    last.op = "tick_done" =>
        \A k \in map_keys(last.before) : k \notin map_keys(events)

C3_Witness ==
    /\ last.op = "tick_done"
    /\ last.before # {}
    /\ \E i \in 1 .. Len(batcher) : batcher[i].tick = ticks /\ ~batcher[i].ok

\* C4: when handle_msg finds an entry and the aggregator function returns
\* None, the map is left as it was.
C4_MismatchKeepsEntry ==
    (HandledPresent /\ ~HandledMerged /\ pc # "panicked") => events = last.before

\* C5: a merge leaves the entry's timestamp as it was, and the Track of a
\* kind carries the timestamp its entry had when the tick began.
C5_FirstSeenPreserved ==
    /\ HandledMerged =>
          map_get(events, last.msg.type_id).timestamp
            = map_get(last.before, last.msg.type_id).timestamp
    /\ last.op \in {"tick", "tick_done"} =>
          \A i \in Tracks : batcher[i].tick = ticks =>
              batcher[i].timestamp
                = Some(map_get(last.before, batcher[i].type_id).timestamp)

C5_Witness ==
    /\ last.op = "tick_done"
    /\ \E i \in Tracks :
          /\ batcher[i].tick = ticks
          /\ Cardinality(batcher[i].ids) = 2
          /\ batcher[i].timestamp # Some(now - 1)

\* The timestamps Message::new gave to the messages folded into an event.
FoldedTimestamps(event) == {built[i].event.timestamp : i \in event.ids}

\* C6: the timestamp of an entry is the earliest timestamp of the messages
\* folded into it.
C6_EarliestTimestamp ==
    \A e \in events :
        \A t \in FoldedTimestamps(e.event) : e.event.timestamp <= t

RECURSIVE SaturatingSum(_)
SaturatingSum(counts) ==
    IF counts = <<>> THEN 0
    ELSE saturating_add(Head(counts), SaturatingSum(Tail(counts)))

RECURSIVE IdsInOrder(_)
IdsInOrder(ids) ==
    IF ids = {} THEN <<>>
    ELSE LET m == CHOOSE x \in ids : \A y \in ids : x <= y
         IN  <<m>> \o IdsInOrder(ids \ {m})

\* C7: whatever the order in which handle_msg saw them, an entry's total is
\* the saturating sum of the totals of the messages folded into it and its
\* user agents are the union of theirs; the Track carries that union.
C7_OrderIndependentBookkeeping ==
    /\ \A e \in events \cup taken :
          /\ e.event.total
               = SaturatingSum([n \in 1 .. Cardinality(e.event.ids) |->
                                  built[IdsInOrder(e.event.ids)[n]].event.total])
          /\ e.event.user_agents
               = UNION {built[i].event.user_agents : i \in e.event.ids}
    /\ \A i \in Tracks :
          batcher[i].properties.user_agent
            = JSet(UNION {built[j].event.user_agents : j \in batcher[i].ids})

C7_Witness ==
    \E i \in Tracks :
        /\ batcher[i].ids = {1, 2}
        /\ batcher[i].timestamp = Some(built[2].event.timestamp)
        /\ built[1].event.user_agents # built[2].event.user_agents

\* The latest actor step was a handle_msg on a kind that has an entry, both
\* payloads of the type of the aggregator function, with totals that sum
\* past UsizeMax.
HandledPastMax ==
    /\ HandledPresent
    /\ map_get(last.before, last.msg.type_id).original.ty
         = last.msg.aggregator_function
    /\ last.msg.event.original.ty = last.msg.aggregator_function
    /\ map_get(last.before, last.msg.type_id).total + last.msg.event.total
         > UsizeMax

\* C8: when handle_msg merges two envelopes whose totals sum past UsizeMax,
\* it does not panic and the total it stores is UsizeMax.
C8_SaturatesNeverPanics ==
    HandledPastMax =>
        /\ pc # "panicked"
        /\ last.msg.type_id \in map_keys(events)
        /\ map_get(events, last.msg.type_id).total = UsizeMax

\* Line 417 alone: the total handle_msg stores, when the aggregator function
\* has returned, is the sum of the two totals, or UsizeMax when the sum is
\* larger.
TotalSaturatesWhenMerged ==
    HandledMerged =>
        LET old == map_get(last.before, last.msg.type_id)
            sum == old.total + last.msg.event.total
        IN  /\ map_get(events, last.msg.type_id).total = Min(sum, UsizeMax)
            /\ map_get(events, last.msg.type_id).total \in 0 .. UsizeMax

\* handle_msg has panicked in a merge whose totals sum past UsizeMax.
PanickedPastMax == HandledPastMax /\ pc = "panicked"

\* handle_msg has stored a total whose sum is past UsizeMax.
MergedPastMax == HandledPastMax /\ HandledMerged

\* C9: the records exported from aggregate(a, b) and from aggregate(b, a)
\* are the same.
C9_ExportCommutes ==
    out.op = "export2" => out.event_ab = out.event_ba

\* C10: aggregate(aggregate(a, b), c) and aggregate(a, aggregate(b, c)) are
\* equal in every field.
C10_AggregateAssociative ==
    out.op = "aggregate3" => out.ab_c = out.a_bc

C10_Witness ==
    /\ out.op = "aggregate3"
    /\ out.ab_c # Panic
    /\ arg.a # arg.b
    /\ arg.b # arg.c
    /\ out.ab_c.total_received = UsizeMax
    /\ arg.a.total_received < UsizeMax

\* The fields of the payloads by the way aggregate combines them: sums,
\* maxima, booleans, frequency tables.
SumFields ==
    {"total_received", "total_succeeded", "total_degraded",
     "total_used_negative_operator", "sort_sum_of_criteria_terms",
     "sort_total_number_of_criteria", "filter_sum_of_criteria_terms",
     "filter_total_number_of_criteria",
     "attributes_to_search_on_total_number_of_uses", "finite_pagination",
     "facets_sum_of_terms", "facets_total_number_of_facets",
     "total_distinct_index_count", "total_single_index", "total_search_count"}

MaxFields ==
    {"max_terms_number", "max_vector_size", "max_limit", "max_offset",
     "max_attributes_to_retrieve", "max_attributes_to_highlight",
     "max_attributes_to_crop"}

BoolFields ==
    {"sort_with_geo_point", "distinct", "filter_with_geo_radius",
     "filter_with_geo_bounding_box", "semantic_ratio", "hybrid",
     "retrieve_vectors", "highlight_pre_tag", "highlight_post_tag",
     "crop_marker", "show_matches_position", "crop_length",
     "show_ranking_score", "show_ranking_score_details",
     "ranking_score_threshold", "use_federation"}

TableFields == {"used_syntax", "matching_strategy"}

\* The count a frequency table holds for a key.
TableCount(table, k) == IF k \in DOMAIN table THEN table[k] ELSE 0

\* C11: aggregate never panics, and every counter and every entry of a
\* frequency table of the result is the saturating sum of the operands'.
C11_SumsSaturate ==
    out.op = "aggregate2" =>
        /\ out.ab # Panic
        /\ \A f \in SumFields \cap DOMAIN arg.a :
              out.ab[f] = saturating_add(arg.a[f], arg.b[f])
        /\ \A f \in TableFields \cap DOMAIN arg.a :
              \A k \in DOMAIN arg.a[f] \cup DOMAIN arg.b[f] :
                  TableCount(out.ab[f], k)
                    = saturating_add(TableCount(arg.a[f], k),
                                     TableCount(arg.b[f], k))

\* The part of C11 that leaves finite_pagination out.
C11_OtherSumsSaturate ==
    (out.op = "aggregate2" /\ out.ab # Panic) =>
        /\ \A f \in (SumFields \ {"finite_pagination"}) \cap DOMAIN arg.a :
              out.ab[f] = saturating_add(arg.a[f], arg.b[f])
        /\ \A f \in TableFields \cap DOMAIN arg.a :
              \A k \in DOMAIN arg.a[f] \cup DOMAIN arg.b[f] :
                  TableCount(out.ab[f], k)
                    = saturating_add(TableCount(arg.a[f], k),
                                     TableCount(arg.b[f], k))

\* merged dominates operand in the fields other than finite_pagination.
DominatesBesidesPagination(merged, operand) ==
    /\ \A f \in ((SumFields \ {"finite_pagination"}) \cup MaxFields)
                  \cap DOMAIN operand : merged[f] >= operand[f]
    /\ \A f \in BoolFields \cap DOMAIN operand : operand[f] => merged[f]
    /\ \A f \in TableFields \cap DOMAIN operand :
          \A k \in DOMAIN operand[f] :
              k \in DOMAIN merged[f] /\ merged[f][k] >= operand[f][k]
    /\ "time_spent" \in DOMAIN operand =>
          operand.time_spent \sqsubseteq merged.time_spent
    /\ "locales" \in DOMAIN operand => operand.locales \subseteq merged.locales

\* Every field of a payload is one of those the domination is stated for.
EveryFieldCovered(payload) ==
    DOMAIN payload \ {"ty"}
      \subseteq SumFields \cup MaxFields \cup BoolFields \cup TableFields
                  \cup {"time_spent", "locales"}

\* C12: the result of aggregate is, in every field, at least what either
\* operand holds in it.
C12_MergeDominates ==
    out.op = "aggregate2" =>
        /\ out.ab # Panic
        /\ EveryFieldCovered(arg.a)
        /\ DominatesBesidesPagination(out.ab, arg.a)
        /\ DominatesBesidesPagination(out.ab, arg.b)
        /\ "finite_pagination" \in DOMAIN arg.a =>
              /\ out.ab.finite_pagination >= arg.a.finite_pagination
              /\ out.ab.finite_pagination >= arg.b.finite_pagination

\* The part of C12 that leaves finite_pagination out.
C12_DominatesBesidesPagination ==
    (out.op = "aggregate2" /\ out.ab # Panic) =>
        /\ EveryFieldCovered(arg.a)
        /\ DominatesBesidesPagination(out.ab, arg.a)
        /\ DominatesBesidesPagination(out.ab, arg.b)

\* The records the run loop has pushed for the ticks 1, 2, ...
LoopRecords ==
    {i \in 1 .. Len(batcher) :
        batcher[i].tick >= 1 /\ batcher[i].kind \in {"Identify", "Track"}}

\* C13: the timer of the run loop has a fixed period of one hour and its
\* first tick comes one full period after the actor started: before that
\* the loop has pushed no Identify and no Track, whatever the map has
\* recorded; the k-th tick does not start before k periods have passed and
\* the timer is then armed for the (k+1)-th period after the start.
C13_FirstTickAfterOnePeriod ==
    /\ INTERVAL = 2
    /\ elapsed < INTERVAL => ticks = 0 /\ LoopRecords = {}
    /\ ticks * INTERVAL <= elapsed
    /\ deadline = (ticks + 1) * INTERVAL

\* The first tick, taken when one period had passed, exported an entry that
\* counts MaxMsgs messages.
C13_Witness ==
    /\ ticks = 1
    /\ elapsed = INTERVAL
    /\ \E i \in Tracks : Cardinality(batcher[i].ids) = MaxMsgs

\* C14: the actor has no terminal state.  It never leaves the loop of run
\* (it is waiting in select! or inside tick), and from every state the
\* ticks still to come are taken and return to the loop: every run, also one
\* in which every sender has been dropped and the mailbox is closed and
\* empty, ends up idle with all the MaxTicks ticks followed behind it.
C14_NoTerminalState ==
    /\ [](pc \in Running)
    /\ <>[](ticks = MaxTicks /\ pc = "idle")

\* A tick that started after the mailbox was closed has run to its end.
C14_Witness ==
    /\ closed
    /\ inbox = <<>>
    /\ last.op = "tick_done"
    /\ last.closed
    /\ ticks = MaxTicks

IdentifiesOf(t) ==
    {i \in 1 .. Len(batcher) :
        batcher[i].kind = "Identify" /\ batcher[i].tick = t}

TracksOf(t) == {i \in Tracks : batcher[i].tick = t}

\* The Identify records of tick t come before its Track records.
IdentifyFirst(t) == \A i \in IdentifiesOf(t) : \A j \in TracksOf(t) : i < j

\* C15, as stated: every tick, one in which create_all_stats fails
\* included, pushes exactly one Identify, before any Track of that tick.
C15_IdentifyEveryTick ==
    \A t \in 1 .. ticks :
        Cardinality(IdentifiesOf(t)) = 1 /\ IdentifyFirst(t)

\* C15, amended: a tick in which create_all_stats returns Ok pushes exactly
\* one Identify, before any Track of that tick; a tick in which it returns
\* Err pushes no Identify.
C15_IdentifyWhenStatsOk ==
    /\ Len(stats) = ticks
    /\ \A t \in 1 .. ticks :
          /\ Cardinality(IdentifiesOf(t)) = (IF stats[t] THEN 1 ELSE 0)
          /\ IdentifyFirst(t)

\* Two ticks that each exported an entry: the statistics were gathered in
\* the first and failed in the second.
C15_Witness ==
    /\ ticks = 2
    /\ stats[1] /\ ~stats[2]
    /\ TracksOf(1) # {} /\ TracksOf(2) # {}

\* Where the sink has received a Track named Launched.
LaunchedAt ==
    {i \in Tracks : batcher[i].event = "Launched"}

\* new has got as far as the spawn of run.
Spawned == pc \in Live

\* C16: new pushes Launched exactly when no instance uid was found; then it
\* pushes it twice, for the user total_launch, then (after a flush) for the
\* instance's own user, before run is spawned and so before any record of
\* a tick; the Segment is built with an empty map.  When an instance uid
\* was found, the sink never receives a Launched.
C16_LaunchedTwiceOnFirstRun ==
    /\ ~startup.first_time_run => LaunchedAt = {}
    /\ LaunchedAt \subseteq {1, 3}
    /\ Spawned /\ startup.first_time_run =>
          /\ LaunchedAt = {1, 3}
          /\ batcher[1].user = "total_launch"
          /\ batcher[2].kind = "Flush"
          /\ batcher[3].user = self_user
          /\ \A i \in 1 .. 3 : batcher[i].tick = 0
    /\ \A i \in 1 .. Len(batcher) : i \notin LaunchedAt /\ i # 2 =>
          batcher[i].tick >= 1
    /\ last.op \in {"init", "spawned", "polled"} => events = {}

\* A first run at the spawn of run: the two Launched are with the sink, the
\* first of them after a push that failed.
C16_Witness ==
    /\ startup.first_time_run
    /\ last.op = "spawned"
    /\ Len(batcher) = 3
    /\ ~batcher[1].ok

\* C17: when the reqwest client cannot be built, new returns None: nothing
\* is pushed to a sink, no channel is created, run is not spawned, and so no
\* message is ever built or queued.
C17_NoClientNoActor ==
    startup.client_is_err =>
        /\ pc \in {"new", "none"}
        /\ batcher = <<>>
        /\ last.op = "init"
        /\ built = <<>> /\ pending = {} /\ inbox = <<>>
        /\ events = {}
        /\ ticks = 0

\* new has returned None on what would have been a first run.
C17_Witness ==
    /\ pc = "none"
    /\ startup.client_is_err
    /\ startup.first_time_run

FlushesOf(t) ==
    {i \in 1 .. Len(batcher) :
        batcher[i].kind = "Flush" /\ batcher[i].tick = t}

\* C18: the results of push and flush are thrown away.  Whatever failed,
\* a tick pushes at most one Identify, then one Track for each entry the map
\* held when the tick began and no other, each once, then flushes once and
\* returns to the loop; what it took out of the map is not put back.
C18_FailuresDiscarded ==
    /\ \A t \in 1 .. ticks :
          /\ Cardinality(IdentifiesOf(t)) <= 1
          /\ Cardinality(FlushesOf(t)) <= 1
          /\ \A i, j \in TracksOf(t) :
                batcher[i].type_id = batcher[j].type_id => i = j
    /\ last.op = "tick_done" =>
          /\ pc = "idle"
          /\ {batcher[i].type_id : i \in TracksOf(ticks)}
                = map_keys(last.before)
          /\ \A i \in TracksOf(ticks) :
                batcher[i].ids = map_get(last.before, batcher[i].type_id).ids
          /\ FlushesOf(ticks) = {Len(batcher)}
          /\ taken = {}
          /\ events = {}

\* A tick over two entries has returned to the loop; a push of it failed
\* and a Track was pushed after the failure.
C18_Witness ==
    /\ last.op = "tick_done"
    /\ Cardinality(last.before) = 2
    /\ \E i \in IdentifiesOf(ticks) \cup TracksOf(ticks) :
          /\ ~batcher[i].ok
          /\ \E j \in TracksOf(ticks) : i < j

\* C19: tick writes "user-agent" from the entry's user agents only where
\* into_event left it null, and "requests.total_received" from the entry's
\* total only where into_event left it null; a value into_event wrote is
\* kept, and so is every other property.  Where the write is impossible
\* (the properties, or "requests", are neither null nor an object) nothing
\* is exported: the indexing panics.
C19_BackFillOnlyIfNull ==
    out.op = "back_fill" =>
        LET before == arg.properties
            after == out.properties
            requests == JsonGet(before, "requests")
            KeysOf(v) == IF is_object(v) THEN DOMAIN v ELSE {}
        IN  IF index_mut_panics(before) \/ index_mut_panics(requests)
            THEN after = Panic
            ELSE
            /\ after # Panic
            /\ DOMAIN after = KeysOf(before) \cup {"user_agent", "requests"}
            /\ after.user_agent =
                  IF JsonGet(before, "user_agent") = JNull
                  THEN JSet(arg.user_agents)
                  ELSE before.user_agent
            /\ DOMAIN after.requests
                  = KeysOf(requests) \cup {"total_received"}
            /\ after.requests.total_received =
                  IF JsonGet(requests, "total_received") = JNull
                  THEN JNum(arg.total)
                  ELSE requests.total_received
            /\ \A k \in KeysOf(requests) \ {"total_received"} :
                  after.requests[k] = requests[k]
            /\ \A k \in KeysOf(before) \ {"user_agent", "requests"} :
                  after[k] = before[k]

\* A Search payload that counted one request, in an entry whose total is
\* another number: the count of the payload is exported, and the user
\* agents of the entry are filled in.
C19_Witness ==
    /\ out.op = "back_fill"
    /\ is_object(arg.properties)
    /\ "pagination" \in DOMAIN arg.properties
    /\ arg.properties.requests.total_received = JNum(1)
    /\ arg.total = 2
    /\ out.properties.requests.total_received = JNum(1)
    /\ arg.user_agents = {"js", "react"}
    /\ out.properties.user_agent = JSet({"js", "react"})

\* The number of samples of the heap that are smaller than v.
SamplesBelow(heap, v) ==
    BagCardinality([x \in {y \in DOMAIN heap : y < v} |-> heap[x]])

\* C20: the 99th_response_time exported by Search and Similar is null for
\* no sample; otherwise the index len * 99 / 100 (rounded down) is a
\* position of the samples and the export is the sample standing there in
\* ascending order, written as a string: as many samples as the index, or
\* fewer, are smaller than it, and more than the index are smaller or
\* equal.  For 10, 20, ..., 100 the index is 9 and the export is 100.
C20_Percentile99th ==
    out.op = "into_event" =>
        LET heap == arg.payload.time_spent
            len == BagCardinality(heap)
            idx == (len * 99) \div 100
            exported == out.event.requests.response_time_99th
        IN  /\ len = 0 => exported = JNull
            /\ len > 0 =>
                  /\ idx < len
                  /\ \E v \in DOMAIN heap :
                        /\ exported = JIntString(v)
                        /\ SamplesBelow(heap, v) <= idx
                        /\ idx < SamplesBelow(heap, v) + heap[v]
            /\ heap = SetToBag(TenSamples) =>
                  idx = 9 /\ exported = JIntString(100)

\* The export of a Similar payload with the ten samples.
C20_Witness ==
    /\ out.op = "into_event"
    /\ arg.payload.ty \in SimilarTys
    /\ arg.payload.time_spent = SetToBag(TenSamples)
    /\ out.event.requests.response_time_99th = JIntString(100)

\* C21: when the searches of one kind recorded in an interval are exported,
\* total_received is their number, total_succeeded the number of those
\* that succeeded, and total_failed the difference; the entry of the map
\* counts them in the same way before it is exported.
C21_CountsOfTheInterval ==
    /\ \A i \in Tracks :
          LET n == Cardinality(batcher[i].ids)
              s == Cardinality(batcher[i].ids \cap SucceededSearches)
          IN  /\ batcher[i].properties.requests.total_received = JNum(n)
              /\ batcher[i].properties.requests.total_succeeded = JNum(s)
              /\ batcher[i].properties.requests.total_failed
                    = JNum(Max(n - s, 0))
    /\ \A e \in events \cup taken :
          /\ e.event.total = Cardinality(e.event.ids)
          /\ e.event.original.total_received = Cardinality(e.event.ids)
          /\ e.event.original.total_succeeded
                = Cardinality(e.event.ids \cap SucceededSearches)

\* Three searches recorded before a tick, two of them succeeded: 3, 2 and 1
\* are exported.
C21_Witness ==
    \E i \in Tracks :
        /\ batcher[i].ids = {1, 2, 3}
        /\ Cardinality(SucceededSearches) = 2
        /\ batcher[i].properties.requests.total_received = JNum(3)
        /\ batcher[i].properties.requests.total_succeeded = JNum(2)
        /\ batcher[i].properties.requests.total_failed = JNum(1)

\* The calls of Message::new counted by the entries of a map.
IdsOf(map) == UNION {e.event.ids : e \in map}

\* What the model has of the mailbox, whichever way a producer is treated
\* when it is full: the mailbox never holds more than its capacity; a
\* message that was not accepted is counted nowhere, and every accepted
\* message is queued, in the map, with the tick in progress, or counted by
\* exactly one Track, whose exported total_received is the number of
\* messages it counts.
OnlyAcceptedCounted ==
    /\ Len(inbox) <= MailboxCapacity
    /\ UNION {msg.event.ids : msg \in pending} \cap dropped = {}
    /\ (1 .. Len(built)) \ (dropped \cup UNION {m.event.ids : m \in pending})
         = UNION ({inbox[i].event.ids : i \in 1 .. Len(inbox)}
                  \cup {IdsOf(events), IdsOf(taken)}
                  \cup {batcher[i].ids : i \in Tracks})
    /\ \A i, j \in Tracks : i # j => batcher[i].ids \cap batcher[j].ids = {}
    /\ \A i \in Tracks :
          batcher[i].properties.requests.total_received
            = JNum(Cardinality(batcher[i].ids))

\* The messages accepted by the mailbox while a tick was awaiting the sink.
AcceptedDuringTick == IF out.op = "accepted" THEN out.during ELSE {}

\* The Track records that count the call id of Message::new.
TracksCounting(id) == {i \in Tracks : id \in batcher[i].ids}

\* C23: a message the mailbox accepted while tick number t was awaiting the
\* sink is not counted by a Track of tick t or of an earlier tick, nor by
\* the entries tick t took; it is in exactly one place: the mailbox, the
\* map, the entries taken by a later tick, or one Track of a later tick.
C23_AcceptedDuringTick ==
    \A a \in AcceptedDuringTick :
        /\ a.id \notin dropped
        /\ \A i \in TracksCounting(a.id) : batcher[i].tick > a.tick
        /\ a.id \in IdsOf(taken) => ticks > a.tick
        /\ Cardinality(TracksCounting(a.id))
             + Cardinality({i \in 1 .. Len(inbox) : a.id \in inbox[i].event.ids})
             + (IF a.id \in IdsOf(events) THEN 1 ELSE 0)
             + (IF a.id \in IdsOf(taken) THEN 1 ELSE 0)
             = 1

\* The first tick exported a message while the mailbox accepted another
\* one, which the second tick exported.
C23_Witness ==
    \E a \in AcceptedDuringTick :
        /\ a.tick = 1
        /\ TracksOf(1) # {}
        /\ \E i \in TracksOf(2) : batcher[i].ids = {a.id}

\* The export of a frequency table: null for the empty table, otherwise one
\* of its keys, no other key having a larger count.
MostUsedOf(table, exported) ==
    IF DOMAIN table = {} THEN exported = JNull
    ELSE \E k \in DOMAIN table :
            /\ exported = JStr(k)
            /\ \A j \in DOMAIN table : table[j] <= table[k]

\* C24: aggregate merges used_syntax and matching_strategy key by key with
\* a saturating sum, a key of either operand being a key of the result;
\* into_event exports for each table a key of maximal count, and null
\* exactly when the table is empty.
C24_FrequencyTables ==
    /\ (out.op \in {"aggregate2", "export2"} /\ out.ab # Panic) =>
          \A f \in TableFields \cap DOMAIN arg.a :
              /\ DOMAIN out.ab[f] = DOMAIN arg.a[f] \cup DOMAIN arg.b[f]
              /\ \A k \in DOMAIN out.ab[f] :
                    out.ab[f][k] = saturating_add(TableCount(arg.a[f], k),
                                                   TableCount(arg.b[f], k))
    /\ out.op = "export2" =>
          /\ "used_syntax" \in DOMAIN out.ab =>
                /\ MostUsedOf(out.ab.used_syntax,
                              out.event_ab.filter.most_used_syntax)
                /\ (out.event_ab.filter.most_used_syntax = JNull)
                      <=> (DOMAIN out.ab.used_syntax = {})
          /\ "matching_strategy" \in DOMAIN out.ab =>
                /\ MostUsedOf(out.ab.matching_strategy,
                              out.event_ab.matching_strategy.most_used_strategy)
                /\ (out.event_ab.matching_strategy.most_used_strategy = JNull)
                      <=> (DOMAIN out.ab.matching_strategy = {})

\* The merge of a table that counts one syntax many times with a table that
\* counts another syntax once: the first syntax is exported.
C24_Witness ==
    /\ out.op = "export2"
    /\ "used_syntax" \in DOMAIN out.ab
    /\ \E k, j \in DOMAIN out.ab.used_syntax :
          /\ k \in DOMAIN arg.a.used_syntax /\ k \notin DOMAIN arg.b.used_syntax
          /\ j \in DOMAIN arg.b.used_syntax /\ j \notin DOMAIN arg.a.used_syntax
          /\ out.ab.used_syntax[k] > out.ab.used_syntax[j]
          /\ out.event_ab.filter.most_used_syntax = JStr(k)

\* The payloads at hand: the inputs, built by from_query and succeed and by
\* repeated aggregate, and the results of aggregate.
PayloadsAtHand ==
    ({arg.a, arg.b, arg.c}
     \cup (IF out.op \in {"aggregate2", "export2"} THEN {out.ab, out.ba} ELSE {})
     \cup (IF out.op = "aggregate3" THEN {out.ab_c, out.a_bc} ELSE {}))
    \ {Panic}

\* A criteria sum is zero when its denominator is.
SumsHaveDenominators(payload) ==
    /\ "filter_sum_of_criteria_terms" \in DOMAIN payload =>
          (payload.filter_sum_of_criteria_terms > 0
             => payload.filter_total_number_of_criteria > 0)
    /\ "sort_sum_of_criteria_terms" \in DOMAIN payload =>
          (payload.sort_sum_of_criteria_terms > 0
             => payload.sort_total_number_of_criteria > 0)

\* The exported average is the string NaN when the denominator is zero and
\* a number with two decimals otherwise.
AverageOf(denominator, exported) ==
    /\ (exported = JStr("NaN")) <=> (denominator = 0)
    /\ denominator # 0 => DOMAIN exported = {"hundredths"}

\* C25: in the Search and Similar payloads built by from_query and succeed
\* and merged by aggregate, a sum of criteria terms is positive only if its
\* number of criteria is; into_event exports the averages of every such
\* payload, and an average is not a number exactly when the number of
\* criteria is zero.
C25_DegenerateAverages ==
    /\ \A payload \in PayloadsAtHand : SumsHaveDenominators(payload)
    /\ out.op = "export2" =>
          /\ "filter_total_number_of_criteria" \in DOMAIN out.ab =>
                AverageOf(out.ab.filter_total_number_of_criteria,
                          out.event_ab.filter.avg_criteria_number)
          /\ "sort_total_number_of_criteria" \in DOMAIN out.ab =>
                AverageOf(out.ab.sort_total_number_of_criteria,
                          out.event_ab.sort.avg_criteria_number)

\* Searches without filter and without sort were merged and exported: both
\* averages are NaN.
C25_Witness ==
    /\ out.op = "export2"
    /\ "sort_total_number_of_criteria" \in DOMAIN out.ab
    /\ out.ab.total_received >= 2
    /\ out.ab.filter_total_number_of_criteria = 0
    /\ out.ab.sort_total_number_of_criteria = 0
    /\ out.event_ab.filter.avg_criteria_number = JStr("NaN")
    /\ out.event_ab.sort.avg_criteria_number = JStr("NaN")

\* The timestamps Message::new gave to the calls of `ids`.
TimestampsOf(ids) == {built[k].event.timestamp : k \in ids}

\* C26: the timestamp of an entry starts afresh after a tick.  A message
\* that finds no entry of its kind is stored with its own timestamp; the
\* timestamp of a Track is that of one of the messages it counts, and never
\* that of a message counted by a Track of an earlier tick.
C26_FirstSeenStartsFresh ==
    /\ (last.op = "handle_msg"
          /\ last.msg.type_id \notin map_keys(last.before)) =>
          map_get(events, last.msg.type_id).timestamp
            = last.msg.event.timestamp
    /\ \A j \in Tracks :
          /\ batcher[j].timestamp # None
          /\ batcher[j].timestamp[1] \in TimestampsOf(batcher[j].ids)
          /\ \A i \in Tracks : batcher[i].tick < batcher[j].tick =>
                batcher[j].timestamp[1] \notin TimestampsOf(batcher[i].ids)

\* Two ticks exported the same kind: the second Track carries the
\* timestamp of the message recorded after the first tick.
C26_Witness ==
    \E i \in TracksOf(1) : \E j \in TracksOf(2) :
        /\ batcher[i].type_id = batcher[j].type_id
        /\ batcher[j].ids = {2}
        /\ batcher[j].timestamp = Some(built[2].event.timestamp)
        /\ batcher[i].timestamp = Some(built[1].event.timestamp)

\* A number c0 + c1 * 2^64 + c2 * 2^128 is written <<c0, c1, c2>>, with
\* coefficients far smaller than 2^64, so that two numbers are equal when
\* their coefficients are.  The value of a number of a request:
Number(n) == <<n, IF n < 0 THEN 1 ELSE 0, 0>>

\* The product of two values of numbers of a request.
Product(x, y) == <<x[1] * y[1], x[1] * y[2] + x[2] * y[1], x[2] * y[2]>>

\* The number is one a usize holds.
FitsUsize(x) ==
    x[3] = 0 /\ ((x[2] = 0 /\ x[1] >= 0) \/ (x[2] = 1 /\ x[1] < 0))

\* (page - 1) * hits_per_page of the query, as a number.
OffsetOfPage(query) ==
    Product(Number(request_saturating_sub(
                       IF query.page # None THEN query.page[1] ELSE 1, 1)),
            Number(IF query.hits_per_page # None THEN query.hits_per_page[1]
                   ELSE DEFAULT_SEARCH_LIMIT))

\* C27: from_query does not panic, and for a query with page or
\* hits_per_page its max_offset is (page - 1) * hits_per_page, not that
\* product wrapped around.
C27_FromQueryNoOverflow ==
    out.op = "from_query" =>
        /\ out.payload # Panic
        /\ is_finite_pagination(arg.query) =>
              Number(out.payload.max_offset) = OffsetOfPage(arg.query)

\* The part of C27 that holds: when the product fits in a usize.
C27_NoOverflowWhenProductFits ==
    (out.op = "from_query" /\ FitsUsize(OffsetOfPage(arg.query))) =>
        /\ out.payload # Panic
        /\ is_finite_pagination(arg.query) =>
              Number(out.payload.max_offset) = OffsetOfPage(arg.query)

\* C28: handle_msg and tick never interleave.  While tick is awaiting the
\* push of its Identify the map is as the loop left it; from the take on,
\* the latest step of the actor on the map is that take and the map is
\* empty; a handle_msg starts and ends with the loop in select!; a tick
\* starts with the loop in select! and no tick unfinished; during a tick
\* the map changes only by the take and the mailbox only grows.
C28_SingleThreadOfControl ==
    /\ [](pc \in {"export", "flush"} => (last.op = "tick" /\ events = {}))
    /\ [](pc = "flush" => taken = {})
    /\ [](pc = "identify" =>
            (last.op = "identify" /\ events = last.before /\ taken = {}))
    /\ [][((last' # last /\ last'.op = "handle_msg") =>
             (pc = "idle" /\ taken = {} /\ pc' \in {"idle", "panicked"}))
          /\ ((ticks' # ticks) =>
             (pc = "idle" /\ taken = {} /\ ticks' = ticks + 1))
          /\ ((pc \in InTick) =>
             (/\ events' = events
                   \/ (pc = "identify" /\ pc' = "export" /\ events' = {}
                         /\ taken' = events)
              /\ Len(inbox') >= Len(inbox)
              /\ SubSeq(inbox', 1, Len(inbox)) = inbox))
          /\ ((taken' # taken) =>
             (\/ (pc = "idle" /\ ticks' # ticks)
              \/ (pc = "identify" /\ pc' = "export")
              \/ (pc = "export" /\ taken' \subseteq taken)))
         ]_vars

\* A message waits in the mailbox while tick awaits a push.
C28_Witness ==
    /\ pc = "export"
    /\ taken # {}
    /\ inbox # <<>>

\* Tick number t pushed a Track for the kind of entry e that counts every
\* message of e, and whose total_received is the number it counts.
Exported(e, t) ==
    \E i \in TracksOf(t) :
        /\ batcher[i].type_id = e.type_id
        /\ batcher[i].event = event_name(e.event.original)
        /\ e.event.ids \subseteq batcher[i].ids
        /\ batcher[i].properties.requests.total_received
             = JNum(Cardinality(batcher[i].ids))

\* C29: with the timer fair, every message handle_msg has put into the map
\* is exported by the very next tick.  A message stays in the map until a
\* tick starts, and that tick takes the whole map; every entry the tick in
\* progress found in the map is still to be pushed or is counted by a Track
\* of that tick, and all of them are counted once the tick has returned;
\* and while a tick remains to come, a message in the map is eventually
\* counted by a Track.
C29_ExportedByNextTick ==
    /\ [](last.op \in {"tick", "tick_done"} =>
            \A e \in last.before : e \in taken \/ Exported(e, ticks))
    /\ [](last.op = "tick_done" => taken = {})
    /\ [][(events' # events) =>
            \/ IdsOf(events) \subseteq IdsOf(events')
            \/ (last'.op = "tick" /\ last'.before = events /\ taken' = events
                  /\ ticks' \in {ticks, ticks + 1})
         ]_vars
    /\ \A id \in 1 .. MaxMsgs :
          (id \in IdsOf(events) /\ ticks < MaxTicks) ~> (TracksCounting(id) # {})

\* A tick has returned that found two kinds in the map, and exported both.
C29_Witness ==
    /\ last.op = "tick_done"
    /\ Cardinality(last.before) = 2
    /\ \A e \in last.before : Exported(e, ticks)

\* Where the sink has been asked to flush.
Flushes == {i \in 1 .. Len(batcher) : batcher[i].kind = "Flush"}

\* C30: on a first run the Launched of total_launch is followed at once by
\* a flush, both before run is spawned; the Launched of the instance's own
\* user comes after that flush and is followed by nothing until the first
\* tick, and the next flush is the one that ends a tick: the first tick is
\* due one INTERVAL after run was first polled, which is no sooner than one
\* INTERVAL after the spawn.
C30_SecondLaunchedWaitsForTick ==
    startup.first_time_run =>
        /\ pc \in {"launched_user", "spawn"} \cup Live =>
              /\ batcher[1].kind = "Track"
              /\ batcher[1].event = "Launched"
              /\ batcher[1].user = "total_launch"
              /\ batcher[2].kind = "Flush"
              /\ batcher[2].tick = 0
        /\ pc \in {"spawn"} \cup Live =>
              /\ batcher[3].kind = "Track"
              /\ batcher[3].event = "Launched"
              /\ batcher[3].user = self_user
        /\ (pc = "spawn" \/ (Spawned /\ ticks = 0)) => Len(batcher) = 3
        /\ pc = "spawned" => deadline = None
        /\ last.op = "polled" => deadline = last.at + INTERVAL
        /\ (pc \in Running /\ ticks = 0) => deadline >= INTERVAL
        /\ \A i \in Flushes \ {2} :
              /\ i > 3
              /\ batcher[i].tick >= 1
              /\ elapsed >= deadline - INTERVAL
              /\ elapsed >= INTERVAL
        /\ \A i \in 4 .. Len(batcher) :
              /\ batcher[i].tick >= 1
              /\ \/ \E j \in Flushes :
                       j >= i /\ batcher[j].tick = batcher[i].tick
                 \/ (pc \in InTick /\ batcher[i].tick = ticks)

\* A first run whose first tick has returned, run having been polled first
\* one unit of time after the spawn: the second Launched, pushed with
\* success at startup, has been followed by the flush of that tick.
C30_Witness ==
    /\ startup.first_time_run
    /\ last.op = "tick_done"
    /\ ticks = 1
    /\ deadline = 1 + INTERVAL + INTERVAL
    /\ elapsed = 1 + INTERVAL
    /\ batcher[3].ok
    /\ Flushes = {2, Len(batcher)}
    /\ Len(batcher) > 3

\* What the sink received from tick number t, of whatever kind.
RecordsOf(t) == {i \in 1 .. Len(batcher) : batcher[i].tick = t}

\* Tick number t has returned to the loop.
Returned(t) == t < ticks \/ (t = ticks /\ pc \notin InTick)

\* C31: a tick that has returned asked for exactly one flush, after its
\* Identify and after every Track it pushed; a tick still in its loop has
\* asked for none, and a tick awaiting its flush has asked for that one,
\* last of all; a tick that found the map empty pushed no Track and asked
\* for its flush all the same.
C31_OneFlushPerTick ==
    /\ \A t \in 1 .. ticks :
          IF Returned(t)
          THEN /\ Cardinality(FlushesOf(t)) = 1
               /\ \A f \in FlushesOf(t) : \A i \in RecordsOf(t) : i <= f
               /\ \A i \in IdentifiesOf(t) \cup TracksOf(t) :
                     \E f \in FlushesOf(t) : i < f
          ELSE IF pc = "flush"
               THEN FlushesOf(t) = {Len(batcher)}
               ELSE FlushesOf(t) = {}
    /\ (last.op = "tick_done" /\ last.before = {}) =>
          /\ TracksOf(ticks) = {}
          /\ FlushesOf(ticks) = {Len(batcher)}
    /\ (last.op = "tick" /\ taken # {}) => FlushesOf(ticks) = {}

\* The second tick found the map empty after a first tick that pushed a
\* Track: it pushed none and asked for a flush.
C31_Witness ==
    /\ ticks = 2
    /\ last.op = "tick_done"
    /\ last.before = {}
    /\ TracksOf(1) # {}
    /\ TracksOf(2) = {}
    /\ Cardinality(FlushesOf(2)) = 1

\* The messages that exist: built, and waiting or not in the mailbox.
MessagesAtHand ==
    {built[i] : i \in 1 .. Len(built)} \cup pending
        \cup {inbox[i] : i \in 1 .. Len(inbox)}

\* C32: in a message of Message::new the TypeId, the concrete type of the
\* payload and the type downcast_aggregate is bound to are one and the same
\* kind; so every entry of the map, and of the entries a tick took, holds a
\* payload of the kind of its key, the aggregator function never returns
\* None in handle_msg, and handle_msg loses no message the map held: after
\* it the map counts what it counted before and the message handled.
C32_KindsAgree ==
    /\ \A msg \in MessagesAtHand :
          /\ msg.type_id = msg.event.original.ty
          /\ msg.aggregator_function = msg.event.original.ty
    /\ \A e \in events \cup taken : e.event.original.ty = e.type_id
    /\ \A i \in Tracks : batcher[i].event = event_name([ty |-> batcher[i].type_id])
    /\ HandledPresent => HandledMerged
    /\ last.op = "handle_msg" =>
          /\ IdsOf(events) = IdsOf(last.before) \cup last.msg.event.ids
          /\ map_keys(events) = map_keys(last.before) \cup {last.msg.type_id}

\* handle_msg has merged a message into the entry of its kind: the entry
\* counts both messages and holds a payload of its key's kind.
C32_Witness ==
    /\ HandledMerged
    /\ \E e \in events :
          /\ e.type_id = last.msg.type_id
          /\ e.event.original.ty = e.type_id
          /\ Cardinality(e.event.ids) = 2

\* requests.total_received of the properties tick would export for `event`,
\* over the orders in which the tables of the payload may be iterated.
ExportedTotals(event) ==
    {JsonGet(JsonGet(track_properties(event, syntax_order, strategy_order),
                     "requests"), "total_received") :
        syntax_order \in IterOrders(SyntaxKeys(event.original)),
        strategy_order \in IterOrders(StrategyKeys(event.original))}

\* C33: in every entry of the map, and of the entries a tick took, the
\* envelope's total is the payload's total_received, up to and at
\* saturation; the total_received tick exports for the entry is that one
\* number, and every message of Message::new starts both at 1.
C33_EnvelopeCountIsPayloadCount ==
    /\ \A msg \in MessagesAtHand :
          msg.event.total = 1 /\ msg.event.original.total_received = 1
    /\ \A e \in events \cup taken :
          /\ e.event.total = e.event.original.total_received
          /\ e.event.total >= 1
          /\ ExportedTotals(e.event) = {JNum(e.event.total)}
          /\ ExportedTotals(e.event)
               = {JsonGet(JsonGet(into_event(e.event.original, syntax_order,
                                             strategy_order),
                                  "requests"), "total_received") :
                     syntax_order \in IterOrders(SyntaxKeys(e.event.original)),
                     strategy_order \in
                         IterOrders(StrategyKeys(e.event.original))}

\* handle_msg has merged a message into a Similar entry saturated in both
\* counts.
C33_Witness ==
    /\ HandledMerged
    /\ \E e \in events :
          /\ e.type_id = last.msg.type_id
          /\ e.type_id \in SimilarTys
          /\ map_get(last.before, e.type_id).total = UsizeMax
          /\ e.event.total = UsizeMax
          /\ e.event.original.total_received = UsizeMax

\* The Search and Similar payloads there are: of the messages built, of the
\* map and of the entries a tick took.
SampledPayloads ==
    {p \in {msg.event.original : msg \in MessagesAtHand}
            \cup {e.event.original : e \in events \cup taken} :
        p.ty \in SearchTys \cup SimilarTys}

\* C34: a Search or Similar payload whose total_succeeded is below
\* usize::MAX holds exactly total_succeeded latency samples; at usize::MAX
\* it holds at least that many; and total_succeeded never exceeds
\* total_received.
C34_OneSamplePerSuccess ==
    \A p \in SampledPayloads :
        /\ p.total_succeeded < UsizeMax =>
              BagCardinality(p.time_spent) = p.total_succeeded
        /\ BagCardinality(p.time_spent) >= p.total_succeeded
        /\ p.total_succeeded <= p.total_received

\* handle_msg has merged a message into a Similar entry that now counts
\* three requests, two of them successful, and holds two samples.
C34_Witness ==
    /\ HandledMerged
    /\ \E e \in events :
          /\ e.type_id = last.msg.type_id
          /\ e.type_id \in SimilarTys
          /\ e.event.original.total_received = 3
          /\ e.event.original.total_succeeded = 2
          /\ BagCardinality(e.event.original.time_spent) = 2

====
